---------------------------- MODULE Spec2Model ----------------------------
(***************************************************************************)
(* Model of the schedule engine of Grandma_Todo: the time utilities, the   *)
(* schedule validator and builder, the current-block locator, the event    *)
(* matcher and the alert evaluator of the elder view.                      *)
(*                                                                         *)
(* Representation of JavaScript values:                                    *)
(*   - a time string is the record [hh, mm, ws]: a string that matches     *)
(*     /^\d{2}:\d{2}$/ is determined by its two 2-digit fields; ws tells   *)
(*     that the string carries surrounding white space (so that it only    *)
(*     matches after trim()); hh = -1 is a string that never matches;      *)
(*   - NaN is the sentinel NaN, outside the range of toMinutes;            *)
(*   - an optional field is a record with a def flag;                      *)
(*   - a date key "YYYY-MM-DD" is the record [y, m, d].                    *)
(***************************************************************************)
EXTENDS Integers, Sequences, FiniteSets, TLC

-----------------------------------------------------------------------------
(* Bounds of the model *)

\* the most blocks of a schedule or block list a function is called on
MaxBlocks == 3

\* the last point of the grid of times 09:00, 09:10, ... validateSchedule is
\* called on
MaxSlot == 3

\* the last day of the wall clock, counted from BaseDay
MaxDay == 1

\* the largest |previewOffset| the preview buttons are pressed to
MaxPreview == 1

\* the last minute of the day the locator is called at and blocks start or
\* end at, where it is called on its own
MaxMinute == 2

\* the most tasks of a block, and the longest block in minutes, where
\* buildBlocks is called on its own
MaxTasks == 4

MaxDuration == 10

\* the most events stored, where activeEvent is computed on its own
MaxEvents == 3

-----------------------------------------------------------------------------
(* Program constants *)

DAY_MINUTES == 1440

NaN == -1

DEFAULT_ALERT_MINUTES == <<30, 10, 5>>

DEFAULT_ALERT_TARGET == "start"

-----------------------------------------------------------------------------
(* Strings and optional values *)

T(h, m) == [hh |-> h, mm |-> m, ws |-> FALSE]

NoMatchTime == [hh |-> -1, mm |-> -1, ws |-> FALSE]

\* String.prototype.trim on a time string
TrimTime(t) == [t EXCEPT !.ws = FALSE]

\* String.prototype.trim on the labels of the model
Trim(s) ==
  CASE s = " " -> ""
    [] s = " A " -> "A"
    [] OTHER -> s

Undef == [def |-> FALSE, list |-> <<>>]

Some(l) == [def |-> TRUE, list |-> l]

NoLabel == [def |-> FALSE, isArr |-> FALSE, parts |-> <<>>]

StrLabel(s) == [def |-> TRUE, isArr |-> FALSE, parts |-> <<s>>]

ArrLabel(a) == [def |-> TRUE, isArr |-> TRUE, parts |-> a]

Min2(a, b) == IF a <= b THEN a ELSE b

Max2(a, b) == IF a >= b THEN a ELSE b

RECURSIVE SeqFilterNonEmpty(_)
SeqFilterNonEmpty(s) ==
  IF s = <<>> THEN <<>>
  ELSE IF Head(s) = "" THEN SeqFilterNonEmpty(Tail(s))
       ELSE <<Head(s)>> \o SeqFilterNonEmpty(Tail(s))

\* tasks.map((task) => task.trim()).filter((task) => task.length > 0)
TrimNonEmpty(s) == SeqFilterNonEmpty([i \in 1..Len(s) |-> Trim(s[i])])

-----------------------------------------------------------------------------
(* Time utilities *)

toMinutes(t) ==
  IF t.ws \/ t.hh < 0 THEN NaN
  ELSE IF t.hh = 24 /\ t.mm = 0 THEN DAY_MINUTES
  ELSE IF t.hh > 23 \/ t.mm > 59 THEN NaN
  ELSE t.hh * 60 + t.mm

IsNaN(x) == x = NaN

minutesToTime(minutes) ==
  LET safe == Max2(0, Min2(minutes, DAY_MINUTES))
  IN  T(safe \div 60, safe % 60)

\* a faulty variant of JsRem: the remainder is lost
JsRemNone(a, n) == 0

\* the % operator of JavaScript: the sign follows the dividend
JsRem(a, n) == IF a >= 0 THEN a % n ELSE 0 - ((0 - a) % n)

-----------------------------------------------------------------------------
(* Schedule builder *)

\* a faulty variant of TaskList: blank tasks are kept
TaskListUnfiltered(block) ==
  LET tasks == IF block.tasks.def THEN block.tasks.list
               ELSE IF block.label.isArr THEN block.label.parts
               ELSE IF block.label.def THEN block.label.parts
               ELSE <<"">>
  IN  IF Len(tasks) > 0 THEN tasks ELSE <<"">>

\* the task list buildBlocks splits a block into
TaskList(block) ==
  LET tasks == IF block.tasks.def THEN block.tasks.list
               ELSE IF block.label.isArr THEN block.label.parts
               ELSE IF block.label.def THEN block.label.parts
               ELSE <<"">>
      normalized == TrimNonEmpty(tasks)
  IN  IF Len(normalized) > 0 THEN normalized ELSE <<"">>

\* list.forEach of the split: sub-blocks of list[index..] starting at cursor
RECURSIVE SplitFrom(_, _, _, _, _, _)
SplitFrom(list, index, cursor, base, remainder, block) ==
  IF index > Len(list) THEN <<>>
  ELSE LET slice == base + (IF index - 1 < remainder THEN 1 ELSE 0)
           subStart == cursor
           subEnd == cursor + slice
       IN  << [startMin |-> subStart,
               endMin |-> subEnd,
               start |-> minutesToTime(subStart),
               end |-> minutesToTime(subEnd),
               label |-> list[index],
               alertMinutes |-> block.alertMinutes,
               alertTarget |-> IF block.alertTarget = "undef"
                               THEN DEFAULT_ALERT_TARGET ELSE block.alertTarget] >>
           \o SplitFrom(list, index + 1, subEnd, base, remainder, block)

\* the BuiltBlocks of one TimeBlock
BuildOne(block) ==
  LET startMin == toMinutes(block.start)
      endMin == toMinutes(block.end)
      list == TaskList(block)
      duration == endMin - startMin
  IN  IF IsNaN(startMin) \/ IsNaN(endMin) THEN <<>>
      ELSE IF Len(list) <= 1
           THEN << [startMin |-> startMin,
                    endMin |-> endMin,
                    start |-> block.start,
                    end |-> block.end,
                    label |-> list[1],
                    alertMinutes |-> block.alertMinutes,
                    alertTarget |-> IF block.alertTarget = "undef"
                                    THEN DEFAULT_ALERT_TARGET ELSE block.alertTarget] >>
           ELSE SplitFrom(list, 1, startMin, duration \div Len(list),
                          JsRem(duration, Len(list)), block)

RECURSIVE buildBlocks(_)
buildBlocks(blocks) ==
  IF blocks = <<>> THEN <<>>
  ELSE BuildOne(Head(blocks)) \o buildBlocks(Tail(blocks))

-----------------------------------------------------------------------------
(* Schedule validator *)

\* truthiness of label.join(" / ").trim(), or of String(label ?? "").trim()
LabelNonEmpty(label) ==
  IF label.isArr
  THEN IF Len(label.parts) = 0 THEN FALSE
       ELSE IF Len(label.parts) = 1 THEN Trim(label.parts[1]) # ""
       ELSE TRUE
  ELSE label.def /\ Trim(label.parts[1]) # ""

\* the entry validateSchedule maps a block to (index is 0-based, as in the map)
NormalizeEntry(block, index) ==
  LET start == TrimTime(block.start)
      end == TrimTime(block.end)
      tasks == IF block.tasks.def THEN TrimNonEmpty(block.tasks.list) ELSE <<>>
      startMin == toMinutes(start)
      endMin == toMinutes(end)
      err(kind) == [ok |-> FALSE, kind |-> kind, index |-> index + 1,
                    startMin |-> 0, endMin |-> 0]
  IN  IF IsNaN(startMin) THEN err("start")
      ELSE IF IsNaN(endMin) THEN err("end")
      ELSE IF startMin >= endMin THEN err("order")
      ELSE IF ~LabelNonEmpty(block.label) /\ Len(tasks) = 0 THEN err("task")
      ELSE [ok |-> TRUE, kind |-> "none", index |-> index + 1,
            startMin |-> startMin, endMin |-> endMin]

\* insertion of e behind every entry that does not start later: a stable sort
RECURSIVE InsertByStart(_, _)
InsertByStart(e, sorted) ==
  IF sorted = <<>> THEN <<e>>
  ELSE IF e.startMin < Head(sorted).startMin THEN <<e>> \o sorted
       ELSE <<Head(sorted)>> \o InsertByStart(e, Tail(sorted))

\* a faulty variant of SortByStart: the entries stay in the order of the list
SortByStartNot(entries) == entries

\* entries.sort((a, b) => a.startMin - b.startMin)
RECURSIVE SortByStart(_)
SortByStart(entries) ==
  IF entries = <<>> THEN <<>>
  ELSE InsertByStart(entries[Len(entries)], SortByStart(SubSeq(entries, 1, Len(entries) - 1)))

\* the adjacent-pair walk over the sorted entries
AdjacentOverlap(sorted) ==
  \E i \in 2..Len(sorted) : sorted[i].startMin < sorted[i - 1].endMin

Ok == [ok |-> TRUE, kind |-> "none", index |-> 0]

Err(kind, index) == [ok |-> FALSE, kind |-> kind, index |-> index]

validateSchedule(blocks) ==
  IF Len(blocks) = 0 THEN Err("empty", 0)
  ELSE LET normalized == [i \in 1..Len(blocks) |-> NormalizeEntry(blocks[i], i - 1)]
           bad == {i \in 1..Len(blocks) : ~normalized[i].ok}
       IN  IF bad # {}
           THEN LET first == CHOOSE i \in bad : \A j \in bad : i <= j
                IN  Err(normalized[first].kind, normalized[first].index)
           ELSE IF AdjacentOverlap(SortByStart(normalized))
                THEN Err("overlap", 0)
                ELSE Ok

-----------------------------------------------------------------------------
(* Current-block locator *)

\* a faulty variant of Contains: the end of a block belongs to it
ContainsEnd(block, nowMinutes) ==
  \/ block.startMin <= block.endMin
     /\ nowMinutes >= block.startMin /\ nowMinutes <= block.endMin
  \/ block.startMin > block.endMin
     /\ (nowMinutes >= block.startMin \/ nowMinutes <= block.endMin)

\* the conditions of the first loop: the block contains nowMinutes
Contains(block, nowMinutes) ==
  \/ block.startMin <= block.endMin
     /\ nowMinutes >= block.startMin /\ nowMinutes < block.endMin
  \/ block.startMin > block.endMin
     /\ (nowMinutes >= block.startMin \/ nowMinutes < block.endMin)

\* the first loop from the 0-based index i on: the first index whose block
\* contains nowMinutes, or -1
RECURSIVE PrimaryScan(_, _, _)
PrimaryScan(blocks, nowMinutes, i) ==
  IF i >= Len(blocks) THEN -1
  ELSE IF Contains(blocks[i + 1], nowMinutes) THEN i
       ELSE PrimaryScan(blocks, nowMinutes, i + 1)

\* the second loop from the 0-based index i on, with the running nextIndex and
\* prevIndex (-1: none yet, which stands for a start of +/- infinity)
RECURSIVE FallbackScan(_, _, _, _, _)
FallbackScan(blocks, nowMinutes, i, nextIndex, prevIndex) ==
  IF i >= Len(blocks) THEN [nextIndex |-> nextIndex, prevIndex |-> prevIndex]
  ELSE LET start == blocks[i + 1].startMin
           next2 == IF start >= nowMinutes
                       /\ (nextIndex = -1 \/ start < blocks[nextIndex + 1].startMin)
                    THEN i ELSE nextIndex
           prev2 == IF start <= nowMinutes
                       /\ (prevIndex = -1 \/ start > blocks[prevIndex + 1].startMin)
                    THEN i ELSE prevIndex
       IN  FallbackScan(blocks, nowMinutes, i + 1, next2, prev2)

\* a faulty variant of PickFallback: the previous block is preferred
PickFallbackPrev(r) ==
  IF r.prevIndex # -1 THEN r.prevIndex
  ELSE IF r.nextIndex # -1 THEN r.nextIndex
  ELSE 0

\* the returns behind the second loop
PickFallback(r) ==
  IF r.nextIndex # -1 THEN r.nextIndex
  ELSE IF r.prevIndex # -1 THEN r.prevIndex
  ELSE 0

\* nowMinutes is date.getHours() * 60 + date.getMinutes(); indices are 0-based
findCurrentBlockIndex(nowMinutes, blocks) ==
  IF Len(blocks) = 0 THEN 0
  ELSE LET hit == PrimaryScan(blocks, nowMinutes, 0)
       IN  IF hit # -1 THEN hit
           ELSE PickFallback(FallbackScan(blocks, nowMinutes, 0, -1, -1))

-----------------------------------------------------------------------------
(* Dates: date keys, and the Date objects of JavaScript (local time) *)

DK(y, m, d) == [y |-> y, m |-> m, d |-> d]

\* a faulty variant of DateKeyLess: equal keys count as less
DateKeyLessOrEqual(a, b) ==
  \/ a.y < b.y
  \/ a.y = b.y /\ a.m < b.m
  \/ a.y = b.y /\ a.m = b.m /\ a.d <= b.d

\* dateKey < other, the comparison of two fixed-width "YYYY-MM-DD" strings
DateKeyLess(a, b) ==
  \/ a.y < b.y
  \/ a.y = b.y /\ a.m < b.m
  \/ a.y = b.y /\ a.m = b.m /\ a.d < b.d

\* the day number (days since 1970-01-01) of the first-of-month-based date
\* y-m-d of the proleptic Gregorian calendar
DaysFromCivil(y, m, d) ==
  LET yy == IF m <= 2 THEN y - 1 ELSE y
      era == yy \div 400
      yoe == yy - era * 400
      mp == IF m > 2 THEN m - 3 ELSE m + 9
      doy == (153 * mp + 2) \div 5 + d - 1
      doe == yoe * 365 + yoe \div 4 - yoe \div 100 + doy
  IN  era * 146097 + doe - 719468

\* the calendar date of a day number
CivilFromDays(z) ==
  LET zz == z + 719468
      era == zz \div 146097
      doe == zz - era * 146097
      yoe == (doe - doe \div 1460 + doe \div 36524 - doe \div 146096) \div 365
      doy == doe - (365 * yoe + yoe \div 4 - yoe \div 100)
      mp == (5 * doy + 2) \div 153
      d == doy - (153 * mp + 2) \div 5 + 1
      m == IF mp < 10 THEN mp + 3 ELSE mp - 9
  IN  DK(yoe + era * 400 + (IF m <= 2 THEN 1 ELSE 0), m, d)

\* new Date(year, month - 1, day): the day number, months and days that
\* overflow carried over, a year below 100 counted from 1900
NewDate(year, month, day) ==
  LET y0 == IF year <= 99 THEN year + 1900 ELSE year
      y == y0 + (month - 1) \div 12
      m == ((month - 1) % 12) + 1
  IN  DaysFromCivil(y, m, 1) + day - 1

\* parseDateKey: the day number of the Date, or NaN for null
parseDateKey(value) ==
  IF value.y = 0 \/ value.m = 0 \/ value.d = 0 THEN NaN
  ELSE NewDate(value.y, value.m, value.d)

\* Date.prototype.getDay of the Date with day number z (0 is Sunday)
getDay(z) == (z + 4) % 7

\* Date.prototype.getMonth (0-based) and getDate
getMonth(z) == CivilFromDays(z).m - 1

getDate(z) == CivilFromDays(z).d

\* getDateKey of the Date with day number z
getDateKey(z) == CivilFromDays(z)

-----------------------------------------------------------------------------
(* Event matcher *)

eventOccursOnDate(event, dateKey) ==
  IF event.repeat = "none"
  THEN ~DateKeyLess(dateKey, event.startDate) /\ ~DateKeyLess(event.endDate, dateKey)
  ELSE IF DateKeyLess(dateKey, event.startDate) THEN FALSE
  ELSE LET date == parseDateKey(dateKey)
           base == parseDateKey(event.startDate)
       IN  IF IsNaN(date) \/ IsNaN(base) THEN FALSE
           ELSE IF event.repeat = "daily" THEN TRUE
           ELSE IF event.repeat = "weekly" THEN getDay(date) = getDay(base)
           ELSE IF event.repeat = "yearly"
                THEN getMonth(date) = getMonth(base) /\ getDate(date) = getDate(base)
           ELSE FALSE

RECURSIVE FilterOccurring(_, _)
FilterOccurring(list, dateKey) ==
  IF list = <<>> THEN <<>>
  ELSE IF eventOccursOnDate(Head(list), dateKey)
       THEN <<Head(list)>> \o FilterOccurring(Tail(list), dateKey)
       ELSE FilterOccurring(Tail(list), dateKey)

\* a faulty variant of EventCompare: all-day events go first
EventCompareAllDayFirst(a, b) ==
  IF a.allDay /\ ~b.allDay THEN -1
  ELSE IF ~a.allDay /\ b.allDay THEN 1
  ELSE toMinutes(a.start) - toMinutes(b.start)

\* the comparator of the sort in activeEvent; a difference with NaN is NaN,
\* which the sort takes for 0
EventCompare(a, b) ==
  IF a.allDay /\ ~b.allDay THEN 1
  ELSE IF ~a.allDay /\ b.allDay THEN -1
  ELSE IF IsNaN(toMinutes(a.start)) \/ IsNaN(toMinutes(b.start)) THEN 0
  ELSE toMinutes(a.start) - toMinutes(b.start)

\* Array.prototype.sort is stable: e goes before the first entry it is less than
RECURSIVE InsertEvent(_, _)
InsertEvent(e, sorted) ==
  IF sorted = <<>> THEN <<e>>
  ELSE IF EventCompare(e, Head(sorted)) < 0 THEN <<e>> \o sorted
       ELSE <<Head(sorted)>> \o InsertEvent(e, Tail(sorted))

\* a faulty variant of SortEvents: the candidates stay in the order of the list
SortEventsNot(list) == list

\* [...candidates].sort(comparator)
RECURSIVE SortEvents(_)
SortEvents(list) ==
  IF list = <<>> THEN <<>>
  ELSE InsertEvent(list[Len(list)], SortEvents(SubSeq(list, 1, Len(list) - 1)))

\* the values of activeEvent: null, and an event
NoEvent ==
  [found |-> FALSE,
   event |-> [id |-> "", startDate |-> DK(0, 0, 0), endDate |-> DK(0, 0, 0),
              start |-> NoMatchTime, end |-> NoMatchTime, label |-> "",
              allDay |-> FALSE, repeat |-> "none"]]

Found(event) == [found |-> TRUE, event |-> event]

\* the loop over the sorted candidates
RECURSIVE FirstMatch(_, _)
FirstMatch(sorted, minutes) ==
  IF sorted = <<>> THEN NoEvent
  ELSE LET event == Head(sorted)
           startMin == toMinutes(event.start)
           endMin == toMinutes(event.end)
       IN  IF event.allDay THEN Found(event)
           ELSE IF IsNaN(startMin) \/ IsNaN(endMin)
                THEN FirstMatch(Tail(sorted), minutes)
           ELSE IF minutes >= startMin /\ minutes < endMin THEN Found(event)
           ELSE FirstMatch(Tail(sorted), minutes)

\* the activeEvent memo, for the date key and minute on display
activeEvent(list, dateKey, minutes) ==
  IF Len(list) = 0 THEN NoEvent
  ELSE LET candidates == FilterOccurring(list, dateKey)
       IN  IF Len(candidates) = 0 THEN NoEvent
           ELSE FirstMatch(SortEvents(candidates), minutes)

-----------------------------------------------------------------------------
(* Alert evaluator *)

\* the loop of getAlertMinutesForBlock over raw[i..], raw being the values
\* after Math.round, with the result so far
\* (result holds exactly the minutes of the set seen, in order)
RECURSIVE AlertMinutesFrom(_, _, _)
AlertMinutesFrom(raw, i, result) ==
  IF i > Len(raw) THEN result
  ELSE LET minute == raw[i]
       IN  IF minute <= 0 \/ minute >= DAY_MINUTES
           THEN AlertMinutesFrom(raw, i + 1, result)
           ELSE IF \E j \in 1..Len(result) : result[j] = minute
                THEN AlertMinutesFrom(raw, i + 1, result)
                ELSE AlertMinutesFrom(raw, i + 1, Append(result, minute))

\* a faulty variant of MathRound: the fraction is cut off
MathFloor(whole, tenths) == whole

\* Math.round of the number whole + tenths / 10, tenths in 0..9: the nearest
\* integer, a half going up
MathRound(whole, tenths) == IF tenths >= 5 THEN whole + 1 ELSE whole

\* the values of an alertMinutes array after Math.round; an array of whole
\* minutes has no field tenths
RoundedMinutes(alertMinutes) ==
  IF "tenths" \in DOMAIN alertMinutes
  THEN [i \in 1..Len(alertMinutes.list) |->
          MathRound(alertMinutes.list[i], alertMinutes.tenths[i])]
  ELSE alertMinutes.list

getAlertMinutesForBlock(block) ==
  LET raw == IF block.alertMinutes.def /\ Len(block.alertMinutes.list) > 0
             THEN RoundedMinutes(block.alertMinutes)
             ELSE DEFAULT_ALERT_MINUTES
  IN  AlertMinutesFrom(raw, 1, <<>>)

\* the localStorage key alert_<dateKey>_<start>-<end>_<target><minuteBefore>
AlertKey(dateKey, block, alertTarget, minuteBefore) ==
  [date |-> dateKey, start |-> block.start, end |-> block.end,
   target |-> alertTarget, minuteBefore |-> minuteBefore]

\* the running state of one tick: the flags in localStorage, the alerts
\* triggered and the flags written by this tick, the variable triggered, and
\* the number of alert minutes looked at after an alert was triggered
TickStart(flags) ==
  [flags |-> flags, alerts |-> <<>>, written |-> <<>>, triggered |-> FALSE,
   after |-> 0]

\* a faulty variant of Suppressed: the flag is never found
SuppressedNever(flags, key) == FALSE

\* localStorage.getItem(key) === "1"
Suppressed(flags, key) == key \in flags

\* a faulty variant of NotDue: an alert whose minute has passed is still due
NotDueYet(targetMinute, nowMinutes) == targetMinute > nowMinutes

\* targetMinute !== nowMinutes
NotDue(targetMinute, nowMinutes) == targetMinute # nowMinutes

\* the inner loop of tick over alertMinutes[j..] of the block at index; the
\* loop ends (break) with the first alert it triggers
RECURSIVE ScanMinutes(_, _, _, _, _, _, _)
ScanMinutes(st, block, alertTarget, baseMin, alertMinutes, j, clock) ==
  IF j > Len(alertMinutes) THEN st
  ELSE LET minuteBefore == alertMinutes[j]
           targetMinute == baseMin - minuteBefore
           key == AlertKey(clock.dateKey, block, alertTarget, minuteBefore)
           seen == [st EXCEPT !.after = IF st.triggered THEN @ + 1 ELSE @]
           skip == \/ targetMinute < 0 \/ targetMinute >= DAY_MINUTES
                   \/ NotDue(targetMinute, clock.nowMinutes)
                   \/ Suppressed(st.flags, key)
       IN  IF skip
           THEN ScanMinutes(seen, block, alertTarget, baseMin, alertMinutes, j + 1, clock)
           ELSE [seen EXCEPT !.flags = @ \cup {key},
                             !.written = Append(@, key),
                             !.alerts = Append(@, key),
                             !.triggered = TRUE]

\* a faulty variant of OuterBreak: the outer loop goes on after an alert
OuterBreakNever(st) == FALSE

\* a break out of the outer loop, at the top of an iteration
OuterBreak(st) == st.triggered

\* the outer loop of tick over the blocks from the 0-based index on
RECURSIVE ScanBlocks(_, _, _, _, _)
ScanBlocks(st, blocks, index, doneSet, clock) ==
  IF index >= Len(blocks) \/ OuterBreak(st) THEN st
  ELSE IF index \in doneSet THEN ScanBlocks(st, blocks, index + 1, doneSet, clock)
  ELSE LET block == blocks[index + 1]
           alertTarget == block.alertTarget
           baseMin == IF alertTarget = "end" THEN toMinutes(block.end)
                      ELSE toMinutes(block.start)
       IN  IF IsNaN(baseMin) THEN ScanBlocks(st, blocks, index + 1, doneSet, clock)
           ELSE ScanBlocks(
                  ScanMinutes(st, block, alertTarget, baseMin,
                              getAlertMinutesForBlock(block), 1, clock),
                  blocks, index + 1, doneSet, clock)

\* one run of tick at the wall clock [dateKey, nowMinutes] against the flags
\* of localStorage
tick(flags, blocks, doneSet, clock) ==
  ScanBlocks(TickStart(flags), blocks, 0, doneSet, clock)

-----------------------------------------------------------------------------
(* Storage: the values the loaders return for the content of localStorage *)

RECURSIVE FilterPositive(_)
FilterPositive(list) ==
  IF list = <<>> THEN <<>>
  ELSE IF Head(list) > 0 THEN <<Head(list)>> \o FilterPositive(Tail(list))
       ELSE FilterPositive(Tail(list))

\* a faulty variant of LoadBlock: the alert target is not read
LoadBlockUntargeted(record) ==
  LET minutes == FilterPositive(record.alertMinutes.list)
  IN  [start |-> record.start, end |-> record.end, label |-> record.label,
       tasks |-> record.tasks, alertTarget |-> "undef",
       alertMinutes |-> IF record.alertMinutes.def /\ Len(minutes) > 0
                        THEN Some(minutes) ELSE Undef]

\* the TimeBlock loadSchedule makes of one stored record
LoadBlock(record) ==
  LET minutes == FilterPositive(record.alertMinutes.list)
  IN  [start |-> record.start, end |-> record.end, label |-> record.label,
       tasks |-> record.tasks, alertTarget |-> record.alertTarget,
       alertMinutes |-> IF record.alertMinutes.def /\ Len(minutes) > 0
                        THEN Some(minutes) ELSE Undef]

\* loadSchedule: Undef stands for null
loadSchedule(store) ==
  IF ~store.def THEN Undef
  ELSE LET blocks == [i \in 1..Len(store.list) |-> LoadBlock(store.list[i])]
       IN  IF validateSchedule(blocks).ok THEN Some(blocks) ELSE Undef

\* normalizeEvent passes the stored record (of well-formed dates); the result
\* is in order of dates, and an all-day event starts at 00:00
EventAccepted(item) ==
  LET start == IF item.allDay THEN T(0, 0) ELSE item.start
      startMin == toMinutes(start)
      endMin == toMinutes(item.end)
  IN  /\ Trim(item.label) # ""
      /\ ~IsNaN(startMin) /\ ~IsNaN(endMin) /\ startMin < endMin

normalizeEvent(item) ==
  LET swap == DateKeyLess(item.endDate, item.startDate)
  IN  [id |-> item.id,
       startDate |-> IF swap THEN item.endDate ELSE item.startDate,
       endDate |-> IF swap THEN item.startDate ELSE item.endDate,
       start |-> IF item.allDay THEN T(0, 0) ELSE item.start,
       end |-> item.end,
       label |-> Trim(item.label),
       allDay |-> item.allDay,
       repeat |-> item.repeat]

RECURSIVE loadEvents(_)
loadEvents(store) ==
  IF store = <<>> THEN <<>>
  ELSE IF EventAccepted(Head(store))
       THEN <<normalizeEvent(Head(store))>> \o loadEvents(Tail(store))
       ELSE loadEvents(Tail(store))

\* loadDoneSet: the set stored under done_<dateKey>, empty when there is none
loadDoneSet(store, dateKey) ==
  IF dateKey \in DOMAIN store THEN store[dateKey] ELSE {}

\* a faulty variant of saveDoneSet: the set is stored under every key
saveDoneSetEverywhere(store, dateKey, set) ==
  [k \in DOMAIN store \cup {dateKey} |-> set]

\* saveDoneSet
saveDoneSet(store, dateKey, set) ==
  [k \in DOMAIN store \cup {dateKey} |-> IF k = dateKey THEN set ELSE store[k]]

-----------------------------------------------------------------------------
(* The elder view: state *)

VARIABLES
  phase,            \* "constructed" before the effects of the first render ran
  wall,             \* the wall clock new Date() reads: [day, min]
  now,              \* the state now: the Date of the last setNow
  timeBlocks,
  currentIndex,
  previewIndex,     \* -1 stands for null
  previewOffset,
  previewDayOffset,
  doneSet,
  currentDateKey,   \* DK(0, 0, 0) stands for ""
  events,
  blocks,           \* the memo buildBlocks(timeBlocks)
  doneModalOpen,
  pendingAutoSlide, \* pendingAutoSlideRef.current
  scheduleStore,    \* localStorage: schedule_v1
  eventsStore,      \* localStorage: events_v1
  doneStore,        \* localStorage: done_<dateKey>
  alertStore,       \* localStorage: the keys alert_... that hold "1"
  fired,            \* history: how often triggerAlert ran for each alert key
  overscan,         \* history: alert minutes the last tick looked at after
                    \* it had triggered an alert
  doneRefused,      \* history: what disabled the button when the last
                    \* handleDoneClick returned at once
  fnArgs,           \* the arguments of a function under test
  fnResult,         \* and its result
  timers,           \* where time is kept in steps: the step of its minute the
                    \* wall clock is in, and the steps left until the
                    \* 15-second interval runs tick (-1: no interval is set)
  familyMounted,    \* the family editor: its load effect has run
  familyBlocks,     \* the family editor: the state blocks
  notice,           \* the family editor: the state notice, by its type
  familyOp,         \* history: the last operation of the family editor, whether
                    \* validateSchedule passed the schedule it would result
                    \* in, and the number of rows it found
  activityStore,    \* localStorage: done_activity_v1
  appended,         \* history: the items appendDoneActivity was called for,
                    \* the last one first
  calMounted,       \* the family calendar: its load effect has run
  calEvents,        \* the family calendar: the state events
  profile,          \* the family calendar: the state profile
  calNotice,        \* the family calendar: the state notice, by its type
  handles           \* where the timers of the elder view are kept track of:
                    \* which of them are set and not yet cleared or spent

elderVars ==
  <<phase, wall, now, timeBlocks, currentIndex, previewIndex, previewOffset,
    previewDayOffset, doneSet, currentDateKey, events, blocks, doneModalOpen,
    pendingAutoSlide, scheduleStore, eventsStore, doneStore, alertStore, fired,
    overscan, doneRefused, timers, handles>>

fnVars == <<fnArgs, fnResult>>

\* the state of the other pages
\* the done-activity log
logVars == <<activityStore, appended>>

\* the family calendar
calendarVars == <<calMounted, calEvents, profile, calNotice>>

\* the family editor
editorVars == <<familyMounted, familyBlocks, notice, familyOp>>

pageVars == <<editorVars, logVars, calendarVars>>

\* what an operation of the elder view leaves alone, and what it leaves alone
\* where time is not kept in steps
otherVars == <<fnVars, pageVars, handles>>

restVars == <<otherVars, timers>>

vars == <<elderVars, fnVars, pageVars>>

TB(start, end, label, tasks, alertMinutes, alertTarget) ==
  [start |-> start, end |-> end, label |-> label, tasks |-> tasks,
   alertMinutes |-> alertMinutes, alertTarget |-> alertTarget]

\* a block of the shape { start, end, label }
Plain(start, end, label) == TB(start, end, StrLabel(label), Undef, Undef, "undef")

\* TIME_BLOCKS, the labels in translation
TIME_BLOCKS ==
  << Plain(T(0, 0), T(6, 30), "rest"),
     Plain(T(6, 30), T(9, 0), "breakfast"),
     Plain(T(9, 0), T(11, 30), "water"),
     Plain(T(11, 30), T(13, 30), "lunch"),
     Plain(T(13, 30), T(16, 30), "stretch"),
     Plain(T(16, 30), T(18, 30), "break"),
     Plain(T(18, 30), T(20, 30), "dinner"),
     Plain(T(20, 30), T(24, 0), "bedtime") >>

\* the first day of the wall clock: 2024-03-14
BaseDay == DaysFromCivil(2024, 3, 14)

\* the minutes of the day the wall clock is read at where alerts are watched
\* (08:50, 08:55), and where the display is (08:49, 10:30: no alert is due)
ClockMinutes == {530, 535}

DisplayMinutes == {529, 630}

\* stored schedules: one with two alerts due at 08:50 (one before an end, one
\* before a start) and one at 08:55, when its first block is over; or none
SchedAlerts ==
  << TB(T(8, 30), T(8, 55), StrLabel("A"), Undef, Some(<<5>>), "end"),
     TB(T(9, 0), T(9, 10), StrLabel("B"), Undef, Some(<<10, 5>>), "start") >>

ScheduleCatalog == {Undef, Some(SchedAlerts)}

Ev(id, startDate, endDate, start, end, label, allDay, repeat) ==
  [id |-> id, startDate |-> startDate, endDate |-> endDate, start |-> start,
   end |-> end, label |-> label, allDay |-> allDay, repeat |-> repeat]

EvAllDay ==
  Ev("e1", DK(2024, 3, 14), DK(2024, 3, 14), T(0, 0), T(23, 59), "Trip", TRUE, "none")

EvTimed ==
  Ev("e2", DK(2024, 3, 14), DK(2024, 3, 14), T(10, 0), T(11, 0), "Visit", FALSE, "daily")

EventCatalog == {<<>>, <<EvAllDay>>, <<EvTimed>>, <<EvAllDay, EvTimed>>}

-----------------------------------------------------------------------------
(* The elder view: the values derived in a render *)

\* the wall clock as tick reads it
WallClock == [dateKey |-> getDateKey(BaseDay + wall.day), nowMinutes |-> wall.min]

displayIndex == IF previewIndex # -1 THEN previewIndex ELSE currentIndex

HasDisplayBlock == Len(blocks) > 0

\* blocks[displayIndex] ?? blocks[0], where there is a block at all
displayBlock ==
  IF displayIndex >= 0 /\ displayIndex < Len(blocks)
  THEN blocks[displayIndex + 1] ELSE blocks[1]

isPreview == previewIndex # -1

hideDone == isPreview /\ previewOffset > 0

\* displayDate: its day index and minute of the day
displayDay == IF isPreview THEN now.day + previewDayOffset ELSE now.day

previewUsesTaskTime ==
  isPreview /\ (previewIndex # currentIndex \/ previewDayOffset # 0)

displayMinutes ==
  IF previewUsesTaskTime /\ HasDisplayBlock /\ ~IsNaN(toMinutes(displayBlock.start))
  THEN toMinutes(displayBlock.start)
  ELSE now.min

displayDateKey == getDateKey(BaseDay + displayDay)

nowDateKey == getDateKey(BaseDay + now.day)

ActiveEvent == activeEvent(events, displayDateKey, displayMinutes)

beforeStart ==
  IF DateKeyLess(nowDateKey, displayDateKey) THEN TRUE
  ELSE IF displayDateKey = nowDateKey /\ HasDisplayBlock
       THEN LET startMin == toMinutes(displayBlock.start)
            IN  ~IsNaN(startMin) /\ now.min < startMin
       ELSE FALSE

\* a faulty variant of doneDisabled: an active event does not count
doneDisabledWithoutEvent == hideDone \/ beforeStart

doneDisabled == hideDone \/ beforeStart \/ ActiveEvent.found

taskLabel ==
  IF ActiveEvent.found THEN ActiveEvent.event.label
  ELSE IF HasDisplayBlock THEN displayBlock.label ELSE ""

-----------------------------------------------------------------------------
(* The elder view: operations *)

NoKey == DK(0, 0, 0)

\* no interval is set
NoTimers == [slot |-> 0, alert |-> -1]

alertVars == <<alertStore, fired, overscan>>

previewVars == <<previewIndex, previewOffset, previewDayOffset>>

modalVars == <<doneModalOpen, pendingAutoSlide, doneRefused>>

storeVars == <<scheduleStore, eventsStore, doneStore>>

\* the count of triggerAlert per key, after the alerts of a tick
RECURSIVE Count(_, _)
Count(f, keys) ==
  IF keys = <<>> THEN f
  ELSE LET k == Head(keys)
           g == [x \in DOMAIN f \cup {k} |->
                   IF x = k THEN (IF k \in DOMAIN f THEN f[k] + 1 ELSE 1) ELSE f[x]]
       IN  Count(g, Tail(keys))

\* the alert effect, run for the block list bl and the done-set ds: nothing
\* without blocks, else one immediate tick, whose alerts triggerAlert shows
AlertEffect(bl, ds) ==
  IF Len(bl) = 0 THEN UNCHANGED alertVars
  ELSE LET r == tick(alertStore, bl, ds, WallClock)
       IN  /\ alertStore' = r.flags
           /\ fired' = Count(fired, r.alerts)
           /\ overscan' = r.after

\* a faulty variant of MountStepWith: whatever loadSchedule returns is taken
MountStepUnguarded(stored) ==
  /\ phase = "constructed"
  /\ phase' = "effects"
  /\ timeBlocks' = stored.list
  /\ blocks' = buildBlocks(timeBlocks')
  /\ events' = loadEvents(eventsStore)
  /\ currentIndex' = IF Len(blocks) = 0 THEN currentIndex
                     ELSE findCurrentBlockIndex(wall.min, blocks)
  /\ currentDateKey' = getDateKey(BaseDay + now.day)
  /\ doneSet' = loadDoneSet(doneStore, currentDateKey')
  /\ AlertEffect(blocks, doneSet)
  /\ UNCHANGED <<wall, now, previewVars, modalVars, storeVars>>

\* the effects of the first render: the stored schedule and events are loaded,
\* the current index is located in the blocks of the first render, the
\* done-set of the date is loaded, and tick runs for the blocks and the
\* (empty) done-set of the first render
MountStepWith(stored) ==
  /\ phase = "constructed"
  /\ phase' = "effects"
  /\ timeBlocks' = IF stored.def /\ Len(stored.list) > 0 THEN stored.list
                   ELSE timeBlocks
  /\ blocks' = buildBlocks(timeBlocks')
  /\ events' = loadEvents(eventsStore)
  /\ currentIndex' = IF Len(blocks) = 0 THEN currentIndex
                     ELSE findCurrentBlockIndex(wall.min, blocks)
  /\ currentDateKey' = getDateKey(BaseDay + now.day)
  /\ doneSet' = loadDoneSet(doneStore, currentDateKey')
  /\ AlertEffect(blocks, doneSet)
  /\ UNCHANGED <<wall, now, previewVars, modalVars, storeVars>>

MountStep == MountStepWith(loadSchedule(scheduleStore))

Mount == MountStep /\ UNCHANGED restVars

\* the render the first effects cause: the effects on blocks and doneSet run
\* again, for the loaded schedule and done-set
MountEffectsStep ==
  /\ phase = "effects"
  /\ phase' = "mounted"
  /\ currentIndex' = IF Len(blocks) = 0 THEN currentIndex
                     ELSE Min2(findCurrentBlockIndex(wall.min, blocks), Len(blocks) - 1)
  /\ AlertEffect(blocks, doneSet)
  /\ UNCHANGED <<wall, now, timeBlocks, blocks, previewVars, doneSet, currentDateKey,
                 events, modalVars, storeVars>>

MountEffects == MountEffectsStep /\ UNCHANGED restVars

\* time passes, once the 1-second interval has seen the last change: later on
\* the same day, or into the next day
WallAdvanceIn(minutes, lastDay) ==
  /\ phase = "mounted"
  /\ now = wall
  /\ \E m \in minutes :
       \/ m > wall.min /\ wall' = [wall EXCEPT !.min = m]
       \/ wall.day < lastDay /\ wall' = [day |-> wall.day + 1, min |-> m]
  /\ UNCHANGED <<phase, now, timeBlocks, blocks, currentIndex, previewVars, doneSet,
                 currentDateKey, events, modalVars, storeVars, alertVars, restVars>>

WallAdvance == WallAdvanceIn(ClockMinutes, MaxDay)

WallAdvanceDisplay == WallAdvanceIn(DisplayMinutes, 0)

\* the 1-second interval: setNow(new Date()); on a new date the date effect
\* loads the done-set of the date, and the new done-set reruns the alert effect
ClockIntervalStep ==
  /\ phase = "mounted"
  /\ now # wall
  /\ now' = wall
  /\ LET dateKey == getDateKey(BaseDay + wall.day)
     IN  IF dateKey # currentDateKey
         THEN /\ currentDateKey' = dateKey
              /\ doneSet' = loadDoneSet(doneStore, dateKey)
              /\ AlertEffect(blocks, doneSet')
         ELSE UNCHANGED <<currentDateKey, doneSet, alertVars>>
  /\ UNCHANGED <<phase, wall, timeBlocks, blocks, currentIndex, previewVars, events,
                 modalVars, storeVars>>

ClockInterval == ClockIntervalStep /\ UNCHANGED restVars

\* the 30-second interval: updateIndex
IndexIntervalStep ==
  /\ phase = "mounted"
  /\ Len(blocks) > 0
  /\ currentIndex' = findCurrentBlockIndex(wall.min, blocks)
  /\ currentIndex' # currentIndex
  /\ UNCHANGED <<phase, wall, now, timeBlocks, blocks, previewVars, doneSet, currentDateKey,
                 events, modalVars, storeVars, alertVars>>

IndexInterval == IndexIntervalStep /\ UNCHANGED restVars

\* the 15-second interval: tick
AlertIntervalStep ==
  /\ phase = "mounted"
  /\ Len(blocks) > 0
  /\ AlertEffect(blocks, doneSet)
  /\ UNCHANGED <<phase, wall, now, timeBlocks, blocks, currentIndex, previewVars, doneSet,
                 currentDateKey, events, modalVars, storeVars>>

AlertInterval == AlertIntervalStep /\ UNCHANGED restVars

\* the offset handlePreview(delta) moves to
NextOffset(delta) == IF previewIndex = -1 THEN delta ELSE previewOffset + delta

\* handlePreview(delta), for a non-empty block list
handlePreview(delta) ==
  LET baseIndex == IF previewIndex = -1 THEN currentIndex ELSE previewIndex
      lastIndex == Len(blocks) - 1
  IN  /\ previewDayOffset' =
           IF delta > 0 /\ baseIndex = lastIndex THEN previewDayOffset + 1
           ELSE IF delta < 0 /\ baseIndex = 0 THEN previewDayOffset - 1
           ELSE previewDayOffset
      /\ previewIndex' = (baseIndex + delta + Len(blocks)) % Len(blocks)
      /\ previewOffset' = NextOffset(delta)

\* the previous / next buttons
PreviewStep ==
  /\ phase = "mounted"
  /\ Len(blocks) > 0
  /\ \E delta \in {-1, 1} :
       /\ NextOffset(delta) <= MaxPreview /\ 0 - NextOffset(delta) <= MaxPreview
       /\ handlePreview(delta)
  /\ UNCHANGED <<phase, wall, now, timeBlocks, blocks, currentIndex, doneSet, currentDateKey,
                 events, modalVars, storeVars, alertVars>>

Preview == PreviewStep /\ UNCHANGED restVars

\* the 3-second timeout of showPreview
PreviewTimeoutStep ==
  /\ phase = "mounted"
  /\ previewIndex # -1
  /\ previewIndex' = -1
  /\ previewOffset' = 0
  /\ previewDayOffset' = 0
  /\ UNCHANGED <<phase, wall, now, timeBlocks, blocks, currentIndex, doneSet, currentDateKey,
                 events, modalVars, storeVars, alertVars>>

PreviewTimeout == PreviewTimeoutStep /\ UNCHANGED restVars

NotRefused == [hideDone |-> FALSE, beforeStart |-> FALSE, activeEvent |-> FALSE]

\* handleDoneClick, and the alert effect the new done-set reruns
handleDoneClick ==
  IF doneDisabled
  THEN /\ doneRefused' = [hideDone |-> hideDone, beforeStart |-> beforeStart,
                           activeEvent |-> ActiveEvent.found]
       /\ UNCHANGED <<doneSet, doneStore, doneModalOpen, pendingAutoSlide, alertVars>>
  ELSE LET targetIndex == IF previewIndex # -1 THEN previewIndex ELSE currentIndex
           wasDone == targetIndex \in doneSet
           nextSet == IF wasDone THEN doneSet \ {targetIndex}
                      ELSE doneSet \cup {targetIndex}
           key == IF currentDateKey # NoKey THEN currentDateKey
                  ELSE getDateKey(BaseDay + wall.day)
       IN  /\ doneRefused' = NotRefused
           /\ doneSet' = nextSet
           /\ doneStore' = saveDoneSet(doneStore, key, nextSet)
           /\ doneModalOpen' = IF wasDone THEN doneModalOpen ELSE TRUE
           /\ pendingAutoSlide' = IF wasDone THEN pendingAutoSlide ELSE TRUE
           /\ AlertEffect(blocks, nextSet)

DoneClickStep ==
  /\ phase = "mounted"
  /\ handleDoneClick
  /\ UNCHANGED <<phase, wall, now, timeBlocks, blocks, currentIndex, previewVars,
                 currentDateKey, events, scheduleStore, eventsStore>>

DoneClick == DoneClickStep /\ UNCHANGED restVars

\* closeDoneModal, by its 2-second timeout or by a click
CloseDoneModalStep ==
  /\ phase = "mounted"
  /\ doneModalOpen
  /\ doneModalOpen' = FALSE
  /\ pendingAutoSlide' = FALSE
  /\ IF pendingAutoSlide /\ Len(blocks) > 0
     THEN /\ NextOffset(1) <= MaxPreview
          /\ handlePreview(1)
     ELSE UNCHANGED previewVars
  /\ UNCHANGED <<phase, wall, now, timeBlocks, blocks, currentIndex, doneSet, currentDateKey,
                 events, doneRefused, storeVars, alertVars>>

CloseDoneModal == CloseDoneModalStep /\ UNCHANGED restVars

\* another view stores a schedule: handleStorage for schedule_v1; a schedule
\* that loads replaces timeBlocks, and the new block list reruns the effects
\* (current index, preview reset, alert effect)
StorageScheduleWith(stores, loaded) ==
  /\ phase = "mounted"
  /\ \E store \in stores :
       /\ store # scheduleStore
       /\ scheduleStore' = store
       /\ LET stored == loaded[store]
          IN  IF stored.def /\ Len(stored.list) > 0
              THEN /\ timeBlocks' = stored.list
                   /\ blocks' = buildBlocks(stored.list)
                   /\ IF Len(blocks') > 0
                      THEN /\ currentIndex' = findCurrentBlockIndex(wall.min, blocks')
                           /\ previewIndex' = -1
                           /\ previewOffset' = 0
                           /\ previewDayOffset' = 0
                      ELSE UNCHANGED <<currentIndex, previewVars>>
                   /\ AlertEffect(blocks', doneSet)
              ELSE UNCHANGED <<timeBlocks, blocks, currentIndex, previewVars, alertVars>>
  /\ UNCHANGED <<phase, wall, now, doneSet, currentDateKey, events, modalVars,
                 eventsStore, doneStore, restVars>>

StorageSchedule ==
  StorageScheduleWith(ScheduleCatalog, [store \in ScheduleCatalog |-> loadSchedule(store)])

\* another view stores events: handleStorage for events_v1
StorageEvents ==
  /\ phase = "mounted"
  /\ \E store \in EventCatalog :
       /\ store # eventsStore
       /\ eventsStore' = store
       /\ events' = loadEvents(store)
  /\ UNCHANGED <<phase, wall, now, timeBlocks, blocks, currentIndex, previewVars, doneSet,
                 currentDateKey, modalVars, scheduleStore, doneStore, alertVars,
                 restVars>>

\* no timer of the elder view is set
NoHandles ==
  [clock |-> FALSE, index |-> FALSE, alert |-> FALSE, flash |-> FALSE, toggles |-> 0,
   alertTimeout |-> FALSE, preview |-> FALSE, doneModal |-> FALSE]

\* the profile of the family calendar: null, or a name, a relation and a
\* birthdate
NoProfile == [def |-> FALSE, name |-> "", relation |-> "", birthdate |-> DK(0, 0, 0)]

\* the component as constructed at the minute min, over the stored schedule,
\* events and done-sets; the other pages are as constructed too
ConstructedOver(minute, schedule, stored, done) ==
  /\ phase = "constructed"
  /\ wall = [day |-> 0, min |-> minute]
  /\ now = wall
  /\ timeBlocks = TIME_BLOCKS
  /\ blocks = buildBlocks(TIME_BLOCKS)
  /\ currentIndex = 0
  /\ previewIndex = -1
  /\ previewOffset = 0
  /\ previewDayOffset = 0
  /\ doneSet = {}
  /\ currentDateKey = NoKey
  /\ events = <<>>
  /\ doneModalOpen = FALSE
  /\ pendingAutoSlide = FALSE
  /\ scheduleStore = schedule
  /\ eventsStore = stored
  /\ doneStore = done
  /\ alertStore = {}
  /\ fired = <<>>
  /\ overscan = 0
  /\ doneRefused = NotRefused
  /\ timers = NoTimers
  /\ familyMounted = FALSE
  /\ familyBlocks = TIME_BLOCKS
  /\ notice = "none"
  /\ familyOp = [kind |-> "none", valid |-> TRUE, rows |-> 0]
  /\ activityStore = Undef
  /\ appended = <<>>
  /\ calMounted = FALSE
  /\ calEvents = <<>>
  /\ profile = NoProfile
  /\ calNotice = "none"
  /\ handles = NoHandles

\* the component as constructed where no done-set is stored
Constructed(minute, schedule, stored) == ConstructedOver(minute, schedule, stored, <<>>)

\* no function is under test
NoCall == fnArgs = <<>> /\ fnResult = <<>>

(***************************************************************************)
(* Spec: the elder view watched for its alerts and done marks. The clock   *)
(* is read at the minutes alerts are due, over two dates; schedules are    *)
(* stored by another view. No calendar event is stored, and the done modal *)
(* and the previews, which change neither the blocks, the done-set nor the *)
(* alert flags, are left to SpecDisplay.                                   *)
(***************************************************************************)
Init ==
  \E minute \in ClockMinutes, schedule \in ScheduleCatalog :
    Constructed(minute, schedule, <<>>) /\ NoCall

Next ==
  \/ Mount
  \/ MountEffects
  \/ WallAdvance
  \/ ClockInterval
  \/ IndexInterval
  \/ AlertInterval
  \/ DoneClick
  \/ StorageSchedule

Spec == Init /\ [][Next]_vars

-----------------------------------------------------------------------------
(* Properties of the alerts, under Spec *)

\* the alert keys of the two alerts SchedAlerts has due at 08:50 of the
\* first day
KeyEnd5 == AlertKey(getDateKey(BaseDay), buildBlocks(SchedAlerts)[1], "end", 5)

KeyStart10 == AlertKey(getDateKey(BaseDay), buildBlocks(SchedAlerts)[2], "start", 10)

\* C1: over any sequence of ticks, the alert of a key (date, start-end,
\* target, minutes before) is triggered at most once: it is triggered only
\* together with the write of its flag, and a tick that finds the flag does
\* not trigger it again.
C1_AlertAtMostOnce ==
  /\ \A k \in DOMAIN fired : fired[k] = 1 /\ k \in alertStore
  /\ \A k \in alertStore : k \in DOMAIN fired

\* C1: both alerts due at 08:50 were triggered, each once: the tick that
\* triggered the second ran in the same minute as the tick that triggered the
\* first, found the flag of the first, and did not trigger it again.
C1_Witness ==
  /\ wall = [day |-> 0, min |-> 530]
  /\ {KeyEnd5, KeyStart10} \subseteq alertStore
  /\ fired[KeyEnd5] = 1 /\ fired[KeyStart10] = 1

\* the keys whose alert this step triggered
TriggeredNow ==
  {k \in DOMAIN fired' : k \notin DOMAIN fired \/ fired'[k] > fired[k]}

\* C2: one tick triggers at most one alert and writes at most one flag, however
\* many alerts are due in the minute, and behind the alert it triggered it
\* looks at no further alert minute of any block.
C2_OneAlertPerTick ==
  [][/\ Cardinality(TriggeredNow) <= 1
     /\ \A k \in TriggeredNow :
          fired'[k] = (IF k \in DOMAIN fired THEN fired[k] ELSE 0) + 1
     /\ Cardinality(alertStore' \ alertStore) <= 1
     /\ overscan' = 0]_vars

\* C2: at 08:50 two alerts of the stored schedule are due, neither block is
\* done, and the ticks so far triggered the first and not the second.
C2_Witness ==
  /\ wall = [day |-> 0, min |-> 530]
  /\ blocks = buildBlocks(SchedAlerts)
  /\ doneSet = {}
  /\ KeyEnd5 \in alertStore
  /\ KeyStart10 \notin alertStore

(***************************************************************************)
(* SpecDisplay: the elder view watched for what it displays: calendar      *)
(* events, previews, the done button and its modal, in the course of one   *)
(* day. The clock is read at minutes no alert is due at, where tick        *)
(* changes nothing.                                                        *)
(***************************************************************************)
InitDisplay ==
  \E minute \in DisplayMinutes, schedule \in ScheduleCatalog,
     stored \in EventCatalog :
    Constructed(minute, schedule, stored) /\ NoCall

NextDisplay ==
  \/ Mount
  \/ MountEffects
  \/ WallAdvanceDisplay
  \/ ClockInterval
  \/ IndexInterval
  \/ Preview
  \/ PreviewTimeout
  \/ DoneClick
  \/ CloseDoneModal
  \/ StorageEvents

SpecDisplay == InitDisplay /\ [][NextDisplay]_vars

-----------------------------------------------------------------------------
(* Properties of the display, under SpecDisplay *)

\* C10: whenever an active event is resolved for the date and minute on
\* display, the label shown is the label of the event, and a click on the done
\* button changes neither the done-set in memory nor the stored done-sets.
C10_EventSuppressesDone ==
  /\ [](ActiveEvent.found => taskLabel = ActiveEvent.event.label)
  /\ [][(ActiveEvent.found /\ DoneClick) => UNCHANGED <<doneSet, doneStore>>]_vars

\* C10: the done button was clicked while nothing but the active event
\* disabled it; the event is still active, its label is shown, not the label
\* of the block on display, and no block was ever marked done.
C10_Witness ==
  /\ doneRefused = [hideDone |-> FALSE, beforeStart |-> FALSE, activeEvent |-> TRUE]
  /\ ActiveEvent.found
  /\ taskLabel = ActiveEvent.event.label
  /\ HasDisplayBlock /\ taskLabel # displayBlock.label
  /\ doneSet = {} /\ doneStore = <<>>

-----------------------------------------------------------------------------
(* Functions called on their own: the arguments are drawn at the start, the *)
(* call fills in the result. The elder view stays as constructed.          *)

Pending == [done |-> FALSE, value |-> <<>>]

Returned(value) == [done |-> TRUE, value |-> value]

Unmounted == Constructed(540, Undef, <<>>)

\* the sequences over S of a length up to n
SeqsUpTo(S, n) == UNION {[1..k -> S] : k \in 0..n}

\* the times of the grid: 09:00, 09:10, ...
SlotTime(k) == T(9, 10 * k)

(***************************************************************************)
(* SpecValidate: validateSchedule called on the schedules of up to         *)
(* MaxBlocks blocks over the grid: blocks of a proper interval, labelled   *)
(* or with a task, and blocks validateSchedule has an error message for.   *)
(***************************************************************************)
ProperBlocks ==
  {Plain(SlotTime(p[1]), SlotTime(p[2]), "A") :
     p \in {q \in (0..MaxSlot) \X (0..MaxSlot) : q[1] < q[2]}}

OtherBlocks ==
  { TB(SlotTime(0), SlotTime(1), NoLabel, Some(<<"A">>), Undef, "undef"),
    Plain(NoMatchTime, SlotTime(1), "A"),
    Plain(SlotTime(0), T(25, 0), "A"),
    Plain(SlotTime(1), SlotTime(1), "A"),
    Plain(SlotTime(1), SlotTime(0), "A"),
    Plain(SlotTime(0), SlotTime(1), " "),
    TB(SlotTime(0), SlotTime(1), NoLabel, Some(<<" ">>), Undef, "undef") }

ScheduleInputs == SeqsUpTo(ProperBlocks \cup OtherBlocks, MaxBlocks)

InitValidate ==
  /\ Unmounted
  /\ fnArgs \in {[op |-> "validateSchedule", blocks |-> b] : b \in ScheduleInputs}
  /\ fnResult = Pending

CallValidate ==
  /\ fnArgs.op = "validateSchedule"
  /\ ~fnResult.done
  /\ fnResult' = Returned(validateSchedule(fnArgs.blocks))
  /\ UNCHANGED <<elderVars, pageVars, fnArgs>>

NextValidate == CallValidate

SpecValidate == InitValidate /\ [][NextValidate]_vars

\* a time string HH:MM of the clock, 24:00 included
WellFormedTime(t) ==
  /\ ~t.ws
  /\ \/ t.hh \in 0..23 /\ t.mm \in 0..59
     \/ t.hh = 24 /\ t.mm = 0

MinuteOfDay(t) == 60 * t.hh + t.mm

HasTimes(b) == WellFormedTime(b.start) /\ WellFormedTime(b.end)

\* a non-empty label, or a non-empty task
HasLabelOrTask(b) ==
  \/ b.label.def /\ \E i \in 1..Len(b.label.parts) : b.label.parts[i] \notin {"", " "}
  \/ b.tasks.def /\ \E i \in 1..Len(b.tasks.list) : b.tasks.list[i] \notin {"", " "}

\* the intervals [start, end) of a and b share a minute: the later start is
\* before the earlier end
IntervalsOverlap(a, b) ==
  /\ HasTimes(a) /\ HasTimes(b)
  /\ LET laterStart == IF MinuteOfDay(a.start) >= MinuteOfDay(b.start)
                       THEN MinuteOfDay(a.start) ELSE MinuteOfDay(b.start)
         earlierEnd == IF MinuteOfDay(a.end) <= MinuteOfDay(b.end)
                       THEN MinuteOfDay(a.end) ELSE MinuteOfDay(b.end)
     IN  laterStart < earlierEnd

\* C3: validateSchedule returns ok for every non-empty schedule whose blocks
\* all have valid times with start < end and a non-empty label or task and
\* whose intervals do not overlap pairwise (an interval may start where another
\* ends); it returns an error for every schedule two of whose blocks have
\* overlapping intervals, wherever the two stand in the list.
C3_ValidateOverlap ==
  fnResult.done =>
    LET b == fnArgs.blocks
        n == Len(b)
        overlap == \E i \in 1..n, j \in 1..n : i # j /\ IntervalsOverlap(b[i], b[j])
        valid == \A i \in 1..n :
                   /\ HasTimes(b[i])
                   /\ MinuteOfDay(b[i].start) < MinuteOfDay(b[i].end)
                   /\ HasLabelOrTask(b[i])
    IN  /\ (n > 0 /\ valid /\ ~overlap) => fnResult.value.ok
        /\ overlap => ~fnResult.value.ok

\* C3: three valid blocks, the first and the last of which overlap while the
\* second overlaps neither and starts where the third ends: the error is the
\* one of the overlap check.
C3_Witness ==
  /\ fnResult.done
  /\ Len(fnArgs.blocks) = 3
  /\ IntervalsOverlap(fnArgs.blocks[1], fnArgs.blocks[3])
  /\ ~IntervalsOverlap(fnArgs.blocks[1], fnArgs.blocks[2])
  /\ ~IntervalsOverlap(fnArgs.blocks[2], fnArgs.blocks[3])
  /\ fnArgs.blocks[2].start = fnArgs.blocks[3].end
  /\ fnResult.value = Err("overlap", 0)

(***************************************************************************)
(* SpecLocate: findCurrentBlockIndex called on the lists of up to          *)
(* MaxBlocks built blocks that start and end at the minutes 0..MaxMinute   *)
(* (a block may end where or before it starts), at each of these minutes;  *)
(* and on the blocks of TIME_BLOCKS at 08:00 and at 23:59.                 *)
(***************************************************************************)
Built(startMin, endMin) ==
  [startMin |-> startMin, endMin |-> endMin, start |-> minutesToTime(startMin),
   end |-> minutesToTime(endMin), label |-> "A", alertMinutes |-> Undef,
   alertTarget |-> DEFAULT_ALERT_TARGET]

BuiltInputs == {Built(s, e) : s \in 0..MaxMinute, e \in 0..MaxMinute}

LocateInputs ==
  {[op |-> "findCurrentBlockIndex", nowMinutes |-> m, blocks |-> b] :
     m \in 0..MaxMinute, b \in SeqsUpTo(BuiltInputs, MaxBlocks)}
  \cup
  {[op |-> "findCurrentBlockIndex", nowMinutes |-> m, blocks |-> buildBlocks(TIME_BLOCKS)] :
     m \in {8 * 60, 23 * 60 + 59}}

InitLocate ==
  /\ Unmounted
  /\ fnArgs \in LocateInputs
  /\ fnResult = Pending

CallLocate ==
  /\ fnArgs.op = "findCurrentBlockIndex"
  /\ ~fnResult.done
  /\ fnResult' = Returned(findCurrentBlockIndex(fnArgs.nowMinutes, fnArgs.blocks))
  /\ UNCHANGED <<elderVars, pageVars, fnArgs>>

NextLocate == CallLocate

SpecLocate == InitLocate /\ [][NextLocate]_vars

\* the block holds the minute: start <= now < end for a block that ends
\* behind its start or at it, now >= start or now < end for a block that ends
\* before its start
Holds(block, m) ==
  IF block.startMin <= block.endMin
  THEN block.startMin <= m /\ m < block.endMin
  ELSE m >= block.startMin \/ m < block.endMin

\* the 0-based indices of the blocks of the call that hold the minute
Holding == {i \in 0..(Len(fnArgs.blocks) - 1) : Holds(fnArgs.blocks[i + 1], fnArgs.nowMinutes)}

\* C4: findCurrentBlockIndex returns the lowest index of a block that contains
\* the current minute, whenever there is such a block; on the default
\* schedule it returns the block 06:30-09:00 at 08:00 and the last block at
\* 23:59.
C4_LowestContaining ==
  fnResult.done =>
    /\ Holding # {} =>
         fnResult.value \in Holding /\ \A i \in Holding : fnResult.value <= i
    /\ fnArgs.blocks = buildBlocks(TIME_BLOCKS) =>
         /\ fnArgs.nowMinutes = 480 =>
              /\ fnResult.value = 1
              /\ fnArgs.blocks[2].start = T(6, 30) /\ fnArgs.blocks[2].end = T(9, 0)
         /\ fnArgs.nowMinutes = 1439 => fnResult.value = Len(TIME_BLOCKS) - 1

\* C4: the first block of three does not contain the minute, the other two
\* do, the second as a block that ends before its start; the second is
\* returned.
C4_Witness ==
  /\ fnResult.done
  /\ Len(fnArgs.blocks) = 3
  /\ Holding = {1, 2}
  /\ fnArgs.blocks[2].startMin > fnArgs.blocks[2].endMin
  /\ fnResult.value = 1

\* the indices of the blocks that start at the minute or later, and of those
\* that start at the minute or earlier
StartingLater ==
  {i \in 0..(Len(fnArgs.blocks) - 1) : fnArgs.blocks[i + 1].startMin >= fnArgs.nowMinutes}

StartingEarlier ==
  {i \in 0..(Len(fnArgs.blocks) - 1) : fnArgs.blocks[i + 1].startMin <= fnArgs.nowMinutes}

\* C5: when no block contains the current minute, findCurrentBlockIndex
\* returns the index of the block with the smallest start minute >= now (the
\* first of them in the list, when several start then); when there is none,
\* of the block with the largest start minute <= now (the first of them);
\* and 0 for want of both only when the list is empty. For a non-empty list
\* the result is a valid index.
C5_Fallback ==
  fnResult.done =>
    LET b == fnArgs.blocks
        r == fnResult.value
    IN  /\ Len(b) > 0 => r \in 0..(Len(b) - 1)
        /\ Len(b) = 0 => r = 0
        /\ (Len(b) > 0 /\ Holding = {}) =>
             IF StartingLater # {}
             THEN /\ r \in StartingLater
                  /\ \A i \in StartingLater :
                       \/ b[r + 1].startMin < b[i + 1].startMin
                       \/ b[r + 1].startMin = b[i + 1].startMin /\ r <= i
             ELSE /\ r \in StartingEarlier
                  /\ \A i \in StartingEarlier :
                       \/ b[r + 1].startMin > b[i + 1].startMin
                       \/ b[r + 1].startMin = b[i + 1].startMin /\ r <= i

\* C5: no block of three contains the minute, the first starts before it and
\* the two others start at one minute behind it; the first of these two is
\* returned.
C5_Witness ==
  /\ fnResult.done
  /\ Len(fnArgs.blocks) = 3
  /\ Holding = {}
  /\ fnArgs.blocks[1].startMin < fnArgs.nowMinutes
  /\ fnArgs.blocks[2].startMin > fnArgs.nowMinutes
  /\ fnArgs.blocks[3].startMin = fnArgs.blocks[2].startMin
  /\ fnResult.value = 1

(***************************************************************************)
(* SpecBuild: buildBlocks called on the schedules of one block that        *)
(* loadSchedule can return (validateSchedule accepts them, as it does for  *)
(* every schedule the views build): the block starts at 09:00 or at 23:50, *)
(* lasts 1..MaxDuration minutes, and has up to MaxTasks tasks, blank ones  *)
(* among them, in its tasks or as its label, with or without alerts.       *)
(***************************************************************************)
TimeOfMinute(m) == T(m \div 60, m % 60)

TaskInputs == SeqsUpTo({"A", "B", " "}, MaxTasks)

BuildBlockInputs ==
  LET times == {<<s, s + d>> : s \in {9 * 60, 23 * 60 + 50}, d \in 1..MaxDuration}
      alerts == {<<Undef, "undef">>, <<Some(<<10, 5>>), "end">>}
  IN  {TB(TimeOfMinute(t[1]), TimeOfMinute(t[2]), NoLabel, Some(l), a[1], a[2]) :
         t \in times, l \in TaskInputs, a \in alerts}
      \cup
      {TB(TimeOfMinute(t[1]), TimeOfMinute(t[2]), ArrLabel(l), Undef, a[1], a[2]) :
         t \in times, l \in TaskInputs, a \in alerts}

BuildInputs ==
  {[op |-> "buildBlocks", blocks |-> <<b>>] :
     b \in {c \in BuildBlockInputs : validateSchedule(<<c>>).ok}}

InitBuild ==
  /\ Unmounted
  /\ fnArgs \in BuildInputs
  /\ fnResult = Pending

CallBuild ==
  /\ fnArgs.op = "buildBlocks"
  /\ ~fnResult.done
  /\ fnResult' = Returned(buildBlocks(fnArgs.blocks))
  /\ UNCHANGED <<elderVars, pageVars, fnArgs>>

NextBuild == CallBuild

SpecBuild == InitBuild /\ [][NextBuild]_vars

\* the tasks of a list that are not blank
RECURSIVE NonBlank(_)
NonBlank(l) ==
  IF l = <<>> THEN <<>>
  ELSE IF Head(l) \in {"", " "} THEN NonBlank(Tail(l))
       ELSE <<Head(l)>> \o NonBlank(Tail(l))

\* the non-empty tasks of the block buildBlocks is called on
TasksOfCall ==
  LET b == fnArgs.blocks[1]
  IN  NonBlank(IF b.tasks.def THEN b.tasks.list ELSE b.label.parts)

\* C6: for a block with n >= 2 non-empty tasks and the duration
\* d = endMin - startMin, buildBlocks emits n sub-blocks in the order of the
\* tasks: the first starts at startMin, each next one where the one before
\* ends, the last ends at endMin; the first d mod n of them last floor(d/n)+1
\* minutes and the others floor(d/n) minutes (09:00-09:10 with 3 tasks: 4, 3,
\* 3); each carries the alertMinutes and the alertTarget of the block.
C6_SplitEvenly ==
  fnResult.done =>
    LET b == fnArgs.blocks[1]
        out == fnResult.value
        n == Len(TasksOfCall)
        s == MinuteOfDay(b.start)
        e == MinuteOfDay(b.end)
        d == e - s
    IN  n >= 2 =>
          /\ Len(out) = n
          /\ out[1].startMin = s
          /\ out[n].endMin = e
          /\ \A i \in 2..n : out[i].startMin = out[i - 1].endMin
          /\ \A i \in 1..n :
               /\ out[i].endMin - out[i].startMin =
                    (d \div n) + (IF i <= d % n THEN 1 ELSE 0)
               /\ out[i].label = TasksOfCall[i]
               /\ MinuteOfDay(out[i].start) = out[i].startMin
               /\ MinuteOfDay(out[i].end) = out[i].endMin
               /\ out[i].alertMinutes = b.alertMinutes
               /\ out[i].alertTarget =
                    (IF b.alertTarget = "undef" THEN "start" ELSE b.alertTarget)
          /\ (s = 540 /\ d = 10 /\ n = 3) =>
               /\ out[1].end = T(9, 4) /\ out[2].end = T(9, 7) /\ out[3].end = T(9, 10)

\* C6: the block 09:00-09:10 with the tasks A, blank, B, A and alerts 10 and
\* 5 minutes before its end is split into 4, 3 and 3 minutes.
C6_Witness ==
  /\ fnResult.done
  /\ fnArgs.blocks[1].start = T(9, 0) /\ fnArgs.blocks[1].end = T(9, 10)
  /\ fnArgs.blocks[1].tasks = Some(<<"A", " ", "B", "A">>)
  /\ fnArgs.blocks[1].alertTarget = "end"
  /\ Len(fnResult.value) = 3
  /\ fnResult.value[1].endMin = 544
  /\ fnResult.value[2].endMin = 547
  /\ fnResult.value[3].endMin = 550
  /\ fnResult.value[3].alertMinutes = Some(<<10, 5>>)

(***************************************************************************)
(* SpecEvent: activeEvent computed on its own, for the lists of up to      *)
(* MaxEvents events as loadEvents returns them (all-day ones from 00:00,   *)
(* timed ones of a proper interval), on 2024-03-14 and 2024-03-15, at      *)
(* 10:15, 10:30 and 11:30.                                                 *)
(***************************************************************************)
EvFair ==
  Ev("e3", DK(2024, 3, 14), DK(2024, 3, 15), T(0, 0), T(23, 59), "Fair", TRUE, "none")

EvWalk ==
  Ev("e4", DK(2024, 3, 14), DK(2024, 3, 14), T(9, 0), T(10, 30), "Walk", FALSE, "none")

EvCall ==
  Ev("e5", DK(2024, 3, 15), DK(2024, 3, 15), T(10, 0), T(11, 0), "Call", FALSE, "none")

EventPool ==
  {e \in {EvAllDay, EvFair, EvTimed, EvWalk, EvCall} :
     EventAccepted(e) /\ normalizeEvent(e) = e}

EventInputs ==
  {[op |-> "activeEvent", events |-> l, dateKey |-> d, minutes |-> m] :
     l \in SeqsUpTo(EventPool, MaxEvents),
     d \in {DK(2024, 3, 14), DK(2024, 3, 15)},
     m \in {615, 630, 690}}

InitEvent ==
  /\ Unmounted
  /\ fnArgs \in EventInputs
  /\ fnResult = Pending

CallEvent ==
  /\ fnArgs.op = "activeEvent"
  /\ ~fnResult.done
  /\ fnResult' = Returned(activeEvent(fnArgs.events, fnArgs.dateKey, fnArgs.minutes))
  /\ UNCHANGED <<elderVars, pageVars, fnArgs>>

NextEvent == CallEvent

SpecEvent == InitEvent /\ [][NextEvent]_vars

\* the positions in the list of the events that occur on the date: the
\* all-day ones, and the timed ones whose interval holds the minute
OccurringAllDay ==
  {i \in 1..Len(fnArgs.events) :
     fnArgs.events[i].allDay /\ eventOccursOnDate(fnArgs.events[i], fnArgs.dateKey)}

OccurringTimedNow ==
  {i \in 1..Len(fnArgs.events) :
     /\ ~fnArgs.events[i].allDay
     /\ eventOccursOnDate(fnArgs.events[i], fnArgs.dateKey)
     /\ MinuteOfDay(fnArgs.events[i].start) <= fnArgs.minutes
     /\ fnArgs.minutes < MinuteOfDay(fnArgs.events[i].end)}

\* the least element of a non-empty set of positions
Least(S) == CHOOSE i \in S : \A j \in S : i <= j

\* C7, as stated: whenever an all-day event occurs on the date, the active
\* event is the first all-day event of the list, whatever timed events occur
\* on that date.
C7_AllDayAlwaysWins ==
  fnResult.done =>
    (OccurringAllDay # {} =>
       fnResult.value = Found(fnArgs.events[Least(OccurringAllDay)]))

\* C7, amended: the candidates are ordered with the timed events, by start
\* minute, before the all-day events. The active event is the timed event
\* occurring on the date that holds the minute and starts first (the first
\* in the list of those that start then); without such a timed event it is
\* the first all-day event of the list that occurs on the date; without
\* either there is none.
C7_TimedBeforeAllDay ==
  fnResult.done =>
    IF OccurringTimedNow # {}
    THEN \E i \in OccurringTimedNow :
           /\ fnResult.value = Found(fnArgs.events[i])
           /\ \A j \in OccurringTimedNow :
                \/ MinuteOfDay(fnArgs.events[i].start) < MinuteOfDay(fnArgs.events[j].start)
                \/ /\ MinuteOfDay(fnArgs.events[i].start) = MinuteOfDay(fnArgs.events[j].start)
                   /\ i <= j
    ELSE IF OccurringAllDay # {}
         THEN fnResult.value = Found(fnArgs.events[Least(OccurringAllDay)])
         ELSE ~fnResult.value.found

\* C7: two all-day events and a timed event occur on the date, the timed one
\* stands between them in the list and does not hold the minute: the first
\* all-day event of the list is the active event.
C7_Witness ==
  /\ fnResult.done
  /\ fnArgs.events = <<EvFair, EvTimed, EvAllDay>>
  /\ fnArgs.dateKey = DK(2024, 3, 14)
  /\ fnArgs.minutes = 690
  /\ fnResult.value = Found(EvFair)

\* C8: when an all-day event and a timed event both occur on the date and
\* the minute lies inside the interval of the timed event (start <= now <
\* end), the active event is a timed event whose interval holds the minute:
\* that timed event, when it is the only such one.
C8_TimedInsideWins ==
  fnResult.done =>
    ((OccurringAllDay # {} /\ OccurringTimedNow # {}) =>
       /\ fnResult.value.found
       /\ ~fnResult.value.event.allDay
       /\ \E i \in OccurringTimedNow : fnResult.value.event = fnArgs.events[i]
       /\ \A i \in OccurringTimedNow :
            OccurringTimedNow = {i} => fnResult.value.event = fnArgs.events[i])

\* C8: the all-day event stands before the timed event 10:00-11:00 in the
\* list, both occur on the date, and at 10:30 the timed event is the active
\* event.
C8_Witness ==
  /\ fnResult.done
  /\ fnArgs.events = <<EvAllDay, EvTimed>>
  /\ fnArgs.dateKey = DK(2024, 3, 14)
  /\ fnArgs.minutes = 630
  /\ fnResult.value = Found(EvTimed)

(***************************************************************************)
(* SpecOccurs: eventOccursOnDate called on its own, for the dates of       *)
(* February and March of 2019, 2020 and 2024, and events of each repeat    *)
(* that start on the 1st, the 15th or the 29th of one of these months and  *)
(* end that day or on 2024-03-15. All dates are dates of the calendar, as  *)
(* the calendar views store them and getDateKey formats them.              *)
(***************************************************************************)
IsLeapYear(y) == (y % 4 = 0 /\ y % 100 # 0) \/ y % 400 = 0

DaysInMonth(y, m) ==
  IF m = 2 THEN (IF IsLeapYear(y) THEN 29 ELSE 28)
  ELSE IF m \in {4, 6, 9, 11} THEN 30 ELSE 31

CalendarDates ==
  {k \in [y : {2019, 2020, 2024}, m : {2, 3}, d : 1..31] : k.d <= DaysInMonth(k.y, k.m)}

StartDates == {k \in CalendarDates : k.d \in {1, 15, 29}}

OccursEvents ==
  UNION {{Ev("e", sd, ed, T(10, 0), T(11, 0), "Visit", FALSE, r) :
            ed \in {sd, DK(2024, 3, 15)}, r \in {"none", "daily", "weekly", "yearly"}} :
         sd \in StartDates}

OccursInputs ==
  {[op |-> "eventOccursOnDate", event |-> e, dateKey |-> d] :
     e \in {x \in OccursEvents : EventAccepted(x) /\ normalizeEvent(x) = x},
     d \in CalendarDates}

InitOccurs ==
  /\ Unmounted
  /\ fnArgs \in OccursInputs
  /\ fnResult = Pending

CallOccurs ==
  /\ fnArgs.op = "eventOccursOnDate"
  /\ ~fnResult.done
  /\ fnResult' = Returned(eventOccursOnDate(fnArgs.event, fnArgs.dateKey))
  /\ UNCHANGED <<elderVars, pageVars, fnArgs>>

NextOccurs == CallOccurs

SpecOccurs == InitOccurs /\ [][NextOccurs]_vars

\* the day of the week of a date of the calendar, 0 for Sunday, by the
\* month table of Sakamoto
WeekdayOf(k) ==
  LET t == <<0, 3, 2, 5, 0, 3, 5, 1, 4, 6, 2, 4>>
      y == IF k.m < 3 THEN k.y - 1 ELSE k.y
  IN  (y + y \div 4 - y \div 100 + y \div 400 + t[k.m] + k.d) % 7

\* a <= b for two dates
NotAfter(a, b) ==
  \/ a.y < b.y
  \/ a.y = b.y /\ a.m < b.m
  \/ a.y = b.y /\ a.m = b.m /\ a.d <= b.d

\* C9: eventOccursOnDate(event, d) is true exactly when repeat is none and
\* startDate <= d <= endDate, or repeat is daily, weekly or yearly,
\* d >= startDate and: daily, always; weekly, d is the same day of the week as
\* startDate; yearly, d has the month and the day of the month of startDate.
\* A yearly event that starts on 2020-03-15 occurs on 2024-03-15, not on
\* 2024-03-16 and not on 2019-03-15. endDate plays no role for an event that
\* repeats.
C9_OccursExactly ==
  fnResult.done =>
    LET e == fnArgs.event
        d == fnArgs.dateKey
        expected ==
          \/ e.repeat = "none" /\ NotAfter(e.startDate, d) /\ NotAfter(d, e.endDate)
          \/ /\ e.repeat \in {"daily", "weekly", "yearly"}
             /\ NotAfter(e.startDate, d)
             /\ \/ e.repeat = "daily"
                \/ e.repeat = "weekly" /\ WeekdayOf(d) = WeekdayOf(e.startDate)
                \/ e.repeat = "yearly" /\ d.m = e.startDate.m /\ d.d = e.startDate.d
    IN  /\ fnResult.value = expected
        /\ (e.repeat = "yearly" /\ e.startDate = DK(2020, 3, 15)) =>
             /\ d = DK(2024, 3, 15) => fnResult.value
             /\ d = DK(2024, 3, 16) => ~fnResult.value
             /\ d = DK(2019, 3, 15) => ~fnResult.value

\* C9: a yearly event that starts and ends on 2020-03-15 occurs on
\* 2024-03-15, years behind its endDate.
C9_Witness ==
  /\ fnResult.done
  /\ fnArgs.event.repeat = "yearly"
  /\ fnArgs.event.startDate = DK(2020, 3, 15)
  /\ fnArgs.event.endDate = DK(2020, 3, 15)
  /\ fnArgs.dateKey = DK(2024, 3, 15)
  /\ fnResult.value = TRUE

(***************************************************************************)
(* SpecTick: tick called on its own, on the built blocks of the schedules  *)
(* of up to MaxTickBlocks one-minute blocks that start at the minutes      *)
(* 0..MaxMinute, each with the alert minutes 2 and 1 before its start or   *)
(* its end, at each of these minutes, for every done-set over the indices  *)
(* and over flags of the first block; and on the blocks of TIME_BLOCKS at  *)
(* 08:30, 08:50 and 08:51.                                                  *)
(***************************************************************************)
MaxTickBlocks == 2

TickBlock(startMin, alertTarget) ==
  TB(minutesToTime(startMin), minutesToTime(startMin + 1), StrLabel("A"), Undef,
     Some(<<2, 1>>), alertTarget)

TickBlockInputs == {TickBlock(s, t) : s \in 0..MaxMinute, t \in {"start", "end"}}

\* the wall clock of the calls: a minute of BaseDay
TickClock(minute) == [dateKey |-> getDateKey(BaseDay), nowMinutes |-> minute]

\* the flags localStorage holds at the call: none, some of the first block
\* for the date, or those of the first block for the day before
TickFlagInputs(list) ==
  IF list = <<>> THEN {{}}
  ELSE LET today == {AlertKey(getDateKey(BaseDay), list[1], list[1].alertTarget, m) :
                       m \in {1, 2}}
           dayBefore == {AlertKey(getDateKey(BaseDay - 1), list[1], list[1].alertTarget, m) :
                           m \in {1, 2}}
       IN  SUBSET today \cup {dayBefore}

TickCall(flags, list, done, minute) ==
  [op |-> "tick", flags |-> flags, blocks |-> list, doneSet |-> done,
   clock |-> TickClock(minute)]

InitTick ==
  /\ Unmounted
  /\ fnResult = Pending
  /\ \/ \E l \in SeqsUpTo(TickBlockInputs, MaxTickBlocks),
            d \in SUBSET (0..(MaxTickBlocks - 1)), m \in 0..MaxMinute :
            \E f \in TickFlagInputs(buildBlocks(l)) :
              fnArgs = TickCall(f, buildBlocks(l), d, m)
     \/ \E d \in {{}, {2}}, m \in {510, 530, 531} :
            fnArgs = TickCall({}, buildBlocks(TIME_BLOCKS), d, m)

CallTick ==
  /\ fnArgs.op = "tick"
  /\ ~fnResult.done
  /\ fnResult' = Returned(tick(fnArgs.flags, fnArgs.blocks, fnArgs.doneSet, fnArgs.clock))
  /\ UNCHANGED <<elderVars, pageVars, fnArgs>>

NextTick == CallTick

SpecTick == InitTick /\ [][NextTick]_vars

\* the minute an alert key is due at: its minutes before the start of its
\* block, or before the end for the target end
TargetMinuteOf(key) ==
  (IF key.target = "end" THEN MinuteOfDay(key.end) ELSE MinuteOfDay(key.start))
  - key.minuteBefore

\* the alert keys of a block list: one for each block and each of its alert
\* minutes, for the date
KeysOfBlock(block, dateKey) ==
  LET minutes == getAlertMinutesForBlock(block)
  IN  {AlertKey(dateKey, block, block.alertTarget, minutes[j]) : j \in 1..Len(minutes)}

\* C11: a tick triggers an alert with the offset m only at the minute
\* anchor - m of the date (anchor: the end of the block for the target end,
\* else its start), and only when that minute is one of the day, 0..1439; so
\* a tick at any later minute does not trigger it, whether or not it was
\* triggered before.
C11_FiresOnlyAtTarget ==
  fnResult.done =>
    \A i \in 1..Len(fnResult.value.alerts) :
      LET key == fnResult.value.alerts[i]
      IN  /\ \E b \in 1..Len(fnArgs.blocks) :
                key \in KeysOfBlock(fnArgs.blocks[b], fnArgs.clock.dateKey)
          /\ TargetMinuteOf(key) = fnArgs.clock.nowMinutes
          /\ TargetMinuteOf(key) >= 0 /\ TargetMinuteOf(key) < 1440

\* C11: a tick at 00:02 over two blocks 00:02-00:03, neither done, no flag
\* set: the alerts of the first, 2 and 1 minutes before its start, were due
\* at 00:00 and 00:01 and are not triggered; the alert of the second 1 minute
\* before its end is due and is triggered.
C11_Witness ==
  /\ fnResult.done
  /\ fnArgs.blocks = buildBlocks(<<TickBlock(2, "start"), TickBlock(2, "end")>>)
  /\ fnArgs.clock.nowMinutes = 2
  /\ fnArgs.doneSet = {} /\ fnArgs.flags = {}
  /\ fnResult.value.alerts =
       <<AlertKey(getDateKey(BaseDay), fnArgs.blocks[2], "end", 1)>>
  /\ fnResult.value.flags = {fnResult.value.alerts[1]}

(***************************************************************************)
(* SpecDone: the elder view watched for its done marks, over the done-sets *)
(* localStorage holds from earlier use: none, one for the first day, or    *)
(* one for each of the first two days. The view is constructed at 08:50;   *)
(* the clock is read at the minutes of ClockMinutes, up to the day MaxDay. *)
(***************************************************************************)
\* stored done-sets, by date key
DoneStored(first, second) ==
  [k \in {getDateKey(BaseDay), getDateKey(BaseDay + 1)} |->
     IF k = getDateKey(BaseDay) THEN first ELSE second]

DoneStoreCatalog ==
  {<<>>, [k \in {getDateKey(BaseDay)} |-> {2}], DoneStored({0}, {1})}

InitDone ==
  \E schedule \in ScheduleCatalog, done \in DoneStoreCatalog :
    ConstructedOver(530, schedule, <<>>, done) /\ NoCall

NextDone ==
  \/ Mount
  \/ MountEffects
  \/ WallAdvance
  \/ ClockInterval
  \/ IndexInterval
  \/ AlertInterval
  \/ DoneClick

SpecDone == InitDone /\ [][NextDone]_vars

\* the done-set the storage holds for the date of the wall clock, behind the
\* step
StoredDoneToday == loadDoneSet(doneStore', WallClock.dateKey)

\* C12: a tick triggers no alert and writes no flag for a block whose index
\* is in the done-set of the date of the tick. (The blocks a tick of SpecDone
\* runs over are those of the state it starts in.)
C12_DoneBlocksSilent ==
  [][\A key \in TriggeredNow \cup (alertStore' \ alertStore) :
       \A i \in 1..Len(blocks) :
         key \in KeysOfBlock(blocks[i], WallClock.dateKey) => (i - 1) \notin StoredDoneToday]_vars

\* C12: the first effects have run at 08:50 over the default schedule, with
\* the block 09:00-11:30 (index 2) stored as done for the date: its alert 10
\* minutes before the start was triggered and its flag written.
C12_Witness ==
  /\ phase = "effects"
  /\ wall = [day |-> 0, min |-> 530]
  /\ doneSet = {2}
  /\ loadDoneSet(doneStore, getDateKey(BaseDay)) = {2}
  /\ LET key == AlertKey(getDateKey(BaseDay), buildBlocks(TIME_BLOCKS)[3], "start", 10)
     IN  key \in alertStore /\ key \in DOMAIN fired

(***************************************************************************)
(* SpecTimers: the elder view with time kept in steps of a part of the     *)
(* 15-second period of the alert interval. A step of time passes only when *)
(* the timers due in it have run: the 1-second clock (the state now has    *)
(* caught up with the wall clock) and the alert interval (its time left is *)
(* not 0). The alert effect sets the interval anew whenever it runs. The   *)
(* view is constructed at 08:50 over a stored schedule or none and over    *)
(* stored done-sets; behind the last step of a minute the wall clock moves *)
(* to the next minute of ClockMinutes, or of the next day: the minutes     *)
(* between hold no alert of these schedules before 08:55.                  *)
(***************************************************************************)
\* window.setInterval(tick, 15000)
TickPeriodMs == 15000

\* the steps of time in one period of the alert interval
TickResolution == 1

SlotsPerMinute == ((60 * 1000) \div TickPeriodMs) * TickResolution

\* a faulty variant of AlertTimerStart: an interval of more than two minutes
AlertTimerSlow == 2 * SlotsPerMinute + 1

\* the steps until an interval just set runs tick
AlertTimerStart == TickResolution

\* the alert effect ran for the block list bl: its cleanup cleared the
\* interval, and it set one unless the list is empty
AlertTimerSet(bl) ==
  timers' = [timers EXCEPT !.alert = IF Len(bl) = 0 THEN -1 ELSE AlertTimerStart]

TimedMount == MountStep /\ AlertTimerSet(blocks) /\ UNCHANGED otherVars

TimedMountEffects == MountEffectsStep /\ AlertTimerSet(blocks) /\ UNCHANGED otherVars

\* the 1-second interval; the alert effect runs again when the date effect
\* has set a done-set
TimedClockInterval ==
  /\ ClockIntervalStep
  /\ IF currentDateKey' # currentDateKey THEN AlertTimerSet(blocks)
     ELSE UNCHANGED timers
  /\ UNCHANGED otherVars

\* the 15-second interval runs tick when its time is up, and starts again
TimedAlertInterval ==
  /\ timers.alert = 0
  /\ AlertIntervalStep
  /\ timers' = [timers EXCEPT !.alert = AlertTimerStart]
  /\ UNCHANGED otherVars

\* a done click; the alert effect runs again when it has set a done-set
TimedDoneClick ==
  /\ DoneClickStep
  /\ IF doneDisabled THEN UNCHANGED timers ELSE AlertTimerSet(blocks)
  /\ UNCHANGED otherVars

\* one step of time passes
TimePassesIn(minutes, lastDay) ==
  /\ phase = "mounted"
  /\ now = wall
  /\ timers.alert # 0
  /\ timers' = [slot |-> (timers.slot + 1) % SlotsPerMinute,
                alert |-> IF timers.alert > 0 THEN timers.alert - 1 ELSE timers.alert]
  /\ IF timers.slot + 1 < SlotsPerMinute THEN UNCHANGED wall
     ELSE \E m \in minutes :
            \/ m > wall.min /\ wall' = [wall EXCEPT !.min = m]
            \/ /\ \A n \in minutes : n <= wall.min
               /\ wall.day < lastDay
               /\ wall' = [day |-> wall.day + 1, min |-> m]
  /\ UNCHANGED <<phase, now, timeBlocks, blocks, currentIndex, previewVars, doneSet,
                 currentDateKey, events, modalVars, storeVars, alertVars, otherVars>>

TimePasses == TimePassesIn(ClockMinutes, MaxDay)

InitTimers ==
  \E schedule \in ScheduleCatalog, done \in DoneStoreCatalog :
    ConstructedOver(530, schedule, <<>>, done) /\ NoCall

NextTimers ==
  \/ TimedMount
  \/ TimedMountEffects
  \/ TimePasses
  \/ TimedClockInterval
  \/ IndexInterval
  \/ TimedAlertInterval
  \/ TimedDoneClick

SpecTimers == InitTimers /\ [][NextTimers]_vars

\* the alert keys of the block list that are due at the minute of the wall
\* clock
DueNow ==
  {key \in UNION {KeysOfBlock(blocks[i], WallClock.dateKey) : i \in 1..Len(blocks)} :
     TargetMinuteOf(key) = wall.min}

\* C13: while the view is mounted, a minute of the wall clock does not pass
\* without a tick in it: when the wall clock leaves a minute in which just one
\* alert of the blocks was due, and the block of that alert is not marked
\* done, the alert has been triggered.
C13_DueAlertFires ==
  [][(phase = "mounted" /\ wall' # wall) =>
       \A i \in 1..Len(blocks) :
         \A key \in KeysOfBlock(blocks[i], WallClock.dateKey) :
           (DueNow = {key} /\ (i - 1) \notin doneSet) => key \in DOMAIN fired]_vars

\* C13: the view, mounted at 08:50 over the stored schedule, has reached the
\* last step of 08:55 with no block marked done; the one alert due at 08:55,
\* 5 minutes before the start of 09:00-09:10, has been triggered.
C13_Witness ==
  /\ phase = "mounted"
  /\ wall = [day |-> 0, min |-> 535]
  /\ timers.slot = SlotsPerMinute - 1
  /\ blocks = buildBlocks(SchedAlerts)
  /\ doneSet = {}
  /\ DueNow = {AlertKey(getDateKey(BaseDay), blocks[2], "start", 5)}
  /\ DueNow \subseteq DOMAIN fired

-----------------------------------------------------------------------------
(* The family editor *)

\* the state of the elder view, and the alert flags and history kept with it
viewVars ==
  <<phase, wall, now, timeBlocks, blocks, currentIndex, previewVars, doneSet,
    currentDateKey, events, modalVars, alertVars, timers, handles>>

ALERT_MINUTE_PRESETS ==
  [count \in 1..5 |->
     CASE count = 1 -> <<5>>
       [] count = 2 -> <<10, 5>>
       [] count = 3 -> <<30, 10, 5>>
       [] count = 4 -> <<30, 15, 10, 5>>
       [] OTHER -> <<30, 20, 15, 10, 5>>]

\* getDefaultAlertMinutes, for a whole number
getDefaultAlertMinutes(count) == ALERT_MINUTE_PRESETS[Max2(1, Min2(5, count))]

\* Array.prototype.join(" / ")
RECURSIVE Join(_)
Join(parts) ==
  IF parts = <<>> THEN ""
  ELSE IF Len(parts) = 1 THEN parts[1]
  ELSE parts[1] \o " / " \o Join(Tail(parts))

normalizeLabel(block) ==
  IF block.label.isArr THEN Join(block.label.parts)
  ELSE IF block.label.def THEN block.label.parts[1]
  ELSE IF block.tasks.def THEN Join(block.tasks.list)
  ELSE ""

normalizeAlertMinutes(values) == AlertMinutesFrom(values, 1, <<>>)

\* the loop of fillAlertMinutes over defaults[k..]
RECURSIVE FillPresets(_, _, _, _)
FillPresets(result, defaults, k, count) ==
  IF k > Len(defaults) \/ Len(result) >= count THEN result
  ELSE IF \E j \in 1..Len(result) : result[j] = defaults[k]
       THEN FillPresets(result, defaults, k + 1, count)
       ELSE FillPresets(Append(result, defaults[k]), defaults, k + 1, count)

fillAlertMinutes(values, count) ==
  LET defaults == getDefaultAlertMinutes(count)
      filled == FillPresets(normalizeAlertMinutes(values), defaults, 1, count)
      padded == filled \o [i \in 1..(count - Len(filled)) |-> defaults[1]]
  IN  SubSeq(padded, 1, count)

\* the block the load effect of the editor makes of a stored block
EditorBlock(block) ==
  TB(block.start, block.end, StrLabel(normalizeLabel(block)), Undef,
     IF block.alertMinutes.def /\ Len(block.alertMinutes.list) > 0
     THEN block.alertMinutes ELSE Some(getDefaultAlertMinutes(3)),
     IF block.alertTarget = "undef" THEN DEFAULT_ALERT_TARGET ELSE block.alertTarget)

\* the load effect of the editor
FamilyMount ==
  /\ ~familyMounted
  /\ familyMounted' = TRUE
  /\ LET stored == loadSchedule(scheduleStore)
     IN  familyBlocks' =
           IF stored.def /\ Len(stored.list) > 0
           THEN [i \in 1..Len(stored.list) |-> EditorBlock(stored.list[i])]
           ELSE familyBlocks
  /\ familyOp' = [kind |-> "mount", valid |-> TRUE, rows |-> Len(familyBlocks)]
  /\ UNCHANGED <<notice, storeVars, viewVars, fnVars, logVars, calendarVars>>

\* the blocks persistBlocks stores: alertTarget and alertMinutes filled in
PersistedBlock(block) ==
  [block EXCEPT
     !.alertTarget = IF @ = "undef" THEN DEFAULT_ALERT_TARGET ELSE @,
     !.alertMinutes = IF @.def /\ Len(@.list) > 0 THEN @
                      ELSE Some(getDefaultAlertMinutes(3))]

\* saveSchedule: the text stored holds the blocks, field for field
saveSchedule(list) == Some(list)

persistBlocks(nextBlocks) ==
  LET normalizedBlocks == [i \in 1..Len(nextBlocks) |-> PersistedBlock(nextBlocks[i])]
  IN  /\ familyBlocks' = normalizedBlocks
      /\ scheduleStore' = saveSchedule(normalizedBlocks)
      /\ notice' = "success"

\* a faulty variant of RefuseWithNotice: the list in memory is stored
RefuseAndStore ==
  /\ notice' = "error"
  /\ scheduleStore' = Some(familyBlocks)
  /\ UNCHANGED familyBlocks

\* the error notice: nothing else is set
RefuseWithNotice ==
  /\ notice' = "error"
  /\ UNCHANGED <<familyBlocks, scheduleStore>>

\* a faulty variant of SortBlocks: the list stays in its order
SortBlocksNot(list) == list

\* [...nextBlocks].sort((a, b) => toMinutes(a.start) - toMinutes(b.start))
SortBlocks(list) ==
  LET entries == [i \in 1..Len(list) |->
                    [block |-> list[i], startMin |-> toMinutes(list[i].start)]]
      sorted == SortByStart(entries)
  IN  [i \in 1..Len(sorted) |-> sorted[i].block]

\* handleSubmit for the form and the alert settings of the modal; editingIndex
\* is -1 for null. The history records what validateSchedule returned.
handleSubmit(form, editingIndex, alertCount, alertMinuteInputs, alertTarget) ==
  LET finalAlertMinutes == fillAlertMinutes(normalizeAlertMinutes(alertMinuteInputs),
                                            alertCount)
      candidate == TB(TrimTime(form.start), TrimTime(form.end),
                      StrLabel(Trim(form.label)), Undef, Some(finalAlertMinutes),
                      alertTarget)
      nextBlocks == IF editingIndex = -1 THEN Append(familyBlocks, candidate)
                    ELSE [familyBlocks EXCEPT ![editingIndex + 1] = candidate]
      validation == validateSchedule(nextBlocks)
  IN  /\ familyOp' = [kind |-> "submit", valid |-> validation.ok,
                      rows |-> Len(familyBlocks)]
      /\ IF ~validation.ok THEN RefuseWithNotice
         ELSE persistBlocks(SortBlocks(nextBlocks))

handleDelete(index) ==
  LET nextBlocks == SubSeq(familyBlocks, 1, index)
                    \o SubSeq(familyBlocks, index + 2, Len(familyBlocks))
      validation == validateSchedule(nextBlocks)
  IN  /\ familyOp' = [kind |-> "delete", valid |-> validation.ok,
                      rows |-> Len(familyBlocks)]
      /\ IF Len(familyBlocks) <= 1 THEN RefuseWithNotice
         ELSE IF ~validation.ok THEN RefuseWithNotice
         ELSE persistBlocks(nextBlocks)

handleReset ==
  LET resetBlocks ==
        [i \in 1..Len(TIME_BLOCKS) |->
           [TIME_BLOCKS[i] EXCEPT
              !.alertTarget = DEFAULT_ALERT_TARGET,
              !.alertMinutes = Some(getDefaultAlertMinutes(Len(DEFAULT_ALERT_MINUTES)))]]
  IN  /\ familyOp' = [kind |-> "reset", valid |-> TRUE, rows |-> Len(familyBlocks)]
      /\ persistBlocks(resetBlocks)

\* the last row of the list the menu is opened for, counted from 0
MaxRow == 1

\* the last point of the grid of times 09:00, 09:10, ... typed into the form
MaxFormSlot == 2

\* the alert settings of the modal: one alert 5 minutes before the start, or
\* two before the end with the inputs 0 and 7
AlertAtStart == [alertCount |-> 1, alertMinuteInputs |-> <<5>>, alertTarget |-> "start"]

AlertAtEnd == [alertCount |-> 2, alertMinuteInputs |-> <<0, 7>>, alertTarget |-> "end"]

\* the forms submitted: each proper interval of the grid with the label A,
\* the first of them with either alert setting, and forms with an unreadable
\* time, an empty or a reversed interval, or a blank label
Form(start, end, label, alert) ==
  [start |-> start, end |-> end, label |-> label, alert |-> alert]

FormInputs ==
  {Form(SlotTime(p[1]), SlotTime(p[2]), "A", AlertAtStart) :
     p \in {q \in (0..MaxFormSlot) \X (0..MaxFormSlot) : q[1] < q[2]}}
  \cup
  { Form(SlotTime(0), SlotTime(1), "A", AlertAtEnd),
    Form(NoMatchTime, SlotTime(1), "A", AlertAtStart),
    Form(SlotTime(0), NoMatchTime, "A", AlertAtStart),
    Form(SlotTime(1), SlotTime(1), "A", AlertAtStart),
    Form(SlotTime(1), SlotTime(0), "A", AlertAtStart),
    Form(SlotTime(0), SlotTime(1), " ", AlertAtStart) }

\* the rows the menu is opened for
Rows == 0..Min2(Len(familyBlocks) - 1, MaxRow)

\* the form is submitted, to add a block or to change the block of a row
FamilySubmit ==
  /\ familyMounted
  /\ \E form \in FormInputs, editingIndex \in {-1} \cup Rows :
       handleSubmit(form, editingIndex, form.alert.alertCount,
                    form.alert.alertMinuteInputs, form.alert.alertTarget)
  /\ UNCHANGED <<familyMounted, eventsStore, doneStore, viewVars, fnVars, logVars, calendarVars>>

\* the delete button of the menu of a row
FamilyDelete ==
  /\ familyMounted
  /\ \E index \in Rows :
       handleDelete(index)
  /\ UNCHANGED <<familyMounted, eventsStore, doneStore, viewVars, fnVars, logVars, calendarVars>>

FamilyReset ==
  /\ familyMounted
  /\ handleReset
  /\ UNCHANGED <<familyMounted, eventsStore, doneStore, viewVars, fnVars, logVars, calendarVars>>

(***************************************************************************)
(* SpecFamily: the family editor, opened over no stored schedule or over   *)
(* one it stored before, where blocks are added, changed, deleted and the  *)
(* schedule is reset, in the rows up to MaxRow. The times typed are those   *)
(* of a grid of MaxFormSlot + 1 times from 09:00 on, or unreadable; the    *)
(* label is A or blank.                                                    *)
(***************************************************************************)
EditorStored ==
  << TB(SlotTime(0), SlotTime(1), StrLabel("A"), Undef, Some(<<5>>), "start") >>

EditorStoreCatalog == {Undef, saveSchedule(EditorStored)}

InitFamily ==
  \E schedule \in EditorStoreCatalog :
    ConstructedOver(540, schedule, <<>>, <<>>) /\ NoCall

NextFamily ==
  \/ FamilyMount
  \/ FamilySubmit
  \/ FamilyDelete
  \/ FamilyReset

SpecFamily == InitFamily /\ [][NextFamily]_vars

\* C14: an add, a change or a delete whose resulting schedule fails
\* validateSchedule, and a delete of the only block left, changes neither the
\* block list in memory nor the stored schedule; the notice set is an error.
C14_RefusedChangesNothing ==
  [][(/\ familyOp'.kind \in {"submit", "delete"}
      /\ \/ ~familyOp'.valid
         \/ familyOp'.kind = "delete" /\ familyOp'.rows = 1)
       => /\ familyBlocks' = familyBlocks
          /\ scheduleStore' = scheduleStore
          /\ notice' = "error"]_vars

\* C14: all blocks of the default schedule but the last, 20:30-24:00, were
\* deleted, and the delete of this only block left was refused: the error
\* notice is set, and the block is in memory and stored still.
C14_Witness ==
  /\ familyOp = [kind |-> "delete", valid |-> FALSE, rows |-> 1]
  /\ notice = "error"
  /\ Len(familyBlocks) = 1
  /\ scheduleStore.def /\ scheduleStore.list = familyBlocks
  /\ familyBlocks[1].start = T(20, 30)


-----------------------------------------------------------------------------
(***************************************************************************)
(* SpecRoundTrip: saveSchedule, then loadSchedule, called on schedules of  *)
(* up to two blocks: a ten-minute block of the grid from 09:00 on, with    *)
(* each kind of label, tasks, alert minutes and alert target, alone or     *)
(* followed by a block before it, after it or over it; and on the empty    *)
(* schedule.                                                               *)
(***************************************************************************)
\* the last grid point a first block starts at
MaxTripSlot == 1

\* the values of the field alertMinutes: absent, empty, one or two positive
\* minutes, and a list with a zero
TripAlertMinutes == {Undef, Some(<<>>), Some(<<5>>), Some(<<10, 5>>), Some(<<0, 7>>)}

TripLabels == {NoLabel, StrLabel("A"), ArrLabel(<<"A", "B">>)}

TripTasks == {Undef, Some(<<"t">>)}

TripBlocks ==
  {TB(SlotTime(s), SlotTime(s + 1), label, tasks, minutes, target) :
     s \in 0..MaxTripSlot, label \in TripLabels, tasks \in TripTasks,
     minutes \in TripAlertMinutes, target \in {"undef", "start", "end"}}

\* what follows the first block: nothing, or a block before it, after it or
\* over it
TripTails ==
  { <<>>,
    << TB(T(8, 0), T(8, 30), StrLabel("B"), Undef, Some(<<10, 5>>), "end") >>,
    << TB(T(10, 0), T(11, 0), StrLabel("B"), Undef, Undef, "undef") >>,
    << TB(SlotTime(0), SlotTime(MaxTripSlot + 1), StrLabel("B"), Undef, Undef, "undef") >> }

TripCall(list) == [op |-> "roundTrip", blocks |-> list]

InitRoundTrip ==
  /\ Unmounted
  /\ fnResult = Pending
  /\ \/ \E b \in TripBlocks, rest \in TripTails : fnArgs = TripCall(<<b>> \o rest)
     \/ fnArgs = TripCall(<<>>)

\* the text saveSchedule stored is what loadSchedule reads
CallRoundTrip ==
  /\ fnArgs.op = "roundTrip"
  /\ ~fnResult.done
  /\ fnResult' = Returned(loadSchedule(saveSchedule(fnArgs.blocks)))
  /\ UNCHANGED <<elderVars, pageVars, fnArgs>>

NextRoundTrip == CallRoundTrip

SpecRoundTrip == InitRoundTrip /\ [][NextRoundTrip]_vars

\* the alert minutes of each block are absent, or a list of one or more
\* positive whole minutes
AlertMinutesKept(list) ==
  \A i \in 1..Len(list) :
    list[i].alertMinutes.def =>
      /\ Len(list[i].alertMinutes.list) > 0
      /\ \A j \in 1..Len(list[i].alertMinutes.list) : list[i].alertMinutes.list[j] > 0

C16_StoredScheduleSorted ==
  (familyMounted /\ scheduleStore.def) =>
    /\ Len(scheduleStore.list) > 0
    /\ validateSchedule(scheduleStore.list).ok
    /\ \A i \in 1..Len(scheduleStore.list), j \in 1..Len(scheduleStore.list) :
         i < j => toMinutes(scheduleStore.list[i].start)
                    <= toMinutes(scheduleStore.list[j].start)

\* C16: the blocks of the default schedule were deleted down to the last,
\* 20:30-24:00, and a block 09:00-09:10 was added: it is stored in front.
C16_Witness ==
  /\ familyOp.kind = "submit" /\ familyOp.valid /\ familyOp.rows = 1
  /\ notice = "success"
  /\ scheduleStore.def
  /\ Len(scheduleStore.list) = 2
  /\ scheduleStore.list[1].start = SlotTime(0)
  /\ scheduleStore.list[2].start = T(20, 30)
  /\ familyBlocks = scheduleStore.list


-----------------------------------------------------------------------------
(* The done-activity log *)

MAX_DONE_ACTIVITY_ITEMS == 200

\* an item of the log: the number n of id stands for the string done_<n>_...
\* and that of completedAt for the ISO string of the time n; a negative
\* number stands for a blank id and for a string that is no date
DoneActivityItem(id, title, completedAt, dateKey) ==
  [id |-> id, title |-> title, completedAt |-> completedAt, dateKey |-> dateKey]

\* normalizeDoneActivity: ok is FALSE for null
normalizeDoneActivity(item) ==
  LET title == Trim(item.title)
  IN  IF item.id < 0 \/ title = "" \/ item.completedAt < 0 \/ item.dateKey = NoKey
      THEN [ok |-> FALSE, item |-> item]
      ELSE [ok |-> TRUE, item |-> [item EXCEPT !.title = title]]

IsItem(r) == r.ok

loadDoneActivities(store) ==
  IF ~store.def THEN <<>>
  ELSE LET mapped == [i \in 1..Len(store.list) |-> normalizeDoneActivity(store.list[i])]
           kept == SelectSeq(mapped, IsItem)
       IN  [i \in 1..Len(kept) |-> kept[i].item]

\* a faulty variant of Slice: nothing is cut off
SliceNot(list, count) == list

\* list.slice(0, count)
Slice(list, count) == SubSeq(list, 1, Min2(Len(list), count))

\* appendDoneActivity for the item and the id made for it: the log it stores
appendDoneActivity(store, item, id) ==
  LET nextItem == [item EXCEPT !.id = id]
      current == loadDoneActivities(store)
      next == Slice(<<nextItem>> \o current, MAX_DONE_ACTIVITY_ITEMS)
  IN  Some(next)

\* the title handleDoneClick logs for the label on display
DoneTitle(titleSource) == IF Trim(titleSource) = "" THEN "activity" ELSE Trim(titleSource)

\* the number of calls of appendDoneActivity looked at
MaxAppends == 204

\* the number of calls, from the first on, looked at for each label on display
MaxVaried == 2

\* a block is marked done: handleDoneClick logs it, at the time and with the
\* id of the number of the call
AppendDone ==
  /\ Len(appended) < MaxAppends
  /\ \E titleSource \in IF Len(appended) < MaxVaried THEN {"A", " "} ELSE {"A"} :
       LET n == Len(appended) + 1
           item == DoneActivityItem(n, DoneTitle(titleSource), n, getDateKey(BaseDay))
       IN  /\ activityStore' = appendDoneActivity(activityStore, item, n)
           /\ appended' = <<item>> \o appended
  /\ UNCHANGED <<elderVars, fnVars, editorVars, calendarVars>>

(***************************************************************************)
(* SpecActivity: blocks are marked done one after the other, up to         *)
(* MaxAppends times, from an empty log on.                                 *)
(***************************************************************************)
InitActivity == Unmounted /\ NoCall

NextActivity == AppendDone

SpecActivity == InitActivity /\ [][NextActivity]_vars

\* C18: after any calls of appendDoneActivity the stored log has at most 200
\* items, the item of the last call first, and holds exactly the items of
\* the last calls, up to 200 of them, from the latest to the earliest.
C18_LogNewestFirstCapped ==
  appended # <<>> =>
    /\ activityStore.def
    /\ Len(activityStore.list) <= 200
    /\ activityStore.list[1] = appended[1]
    /\ activityStore.list = SubSeq(appended, 1, Min2(Len(appended), 200))
    /\ \A i \in 1..(Len(activityStore.list) - 1) :
         activityStore.list[i].completedAt > activityStore.list[i + 1].completedAt

\* C18: after 203 calls the log holds 200 items, from that of the last call
\* to that of the fourth
C18_Witness ==
  /\ Len(appended) = 203
  /\ Len(activityStore.list) = 200
  /\ activityStore.list[1].id = 203
  /\ activityStore.list[200].id = 4
  /\ activityStore.list[200] = appended[200]


-----------------------------------------------------------------------------
(* The family calendar *)

\* a CalendarEvent with its source; "undef" stands for no source
CalEvent(e, source) ==
  [id |-> e.id, startDate |-> e.startDate, endDate |-> e.endDate, start |-> e.start,
   end |-> e.end, label |-> e.label, allDay |-> e.allDay, repeat |-> e.repeat,
   source |-> source]

\* parseDateKey returns a Date: no part of the key is 0 or NaN
DateKeyParses(key) == key.y # 0 /\ key.m # 0 /\ key.d # 0

formatBirthdayLabel(p) ==
  IF p.relation = "" THEN p.name \o " birthday"
  ELSE p.name \o "(" \o p.relation \o ") birthday"

\* the memo userBirthdayEvent: a list of no event (null) or one
userBirthdayEvent ==
  IF ~profile.def THEN <<>>
  ELSE IF ~DateKeyParses(profile.birthdate) THEN <<>>
  ELSE << CalEvent(Ev("birthday-" \o profile.name, profile.birthdate, profile.birthdate,
                      T(0, 0), T(23, 59), formatBirthdayLabel(profile), TRUE, "yearly"),
                   "system") >>

\* the years of the 42 days on display, for the month of BaseDay
YearsInView == <<2024>>

\* getGrandmaBirthdayKey: the solar date the lunar calendar gives for the
\* 18th day of the 8th lunar month of the year
getGrandmaBirthdayKey(year) == DK(year, 9, 20)

grandmaBirthdayEvents ==
  [i \in 1..Len(YearsInView) |->
     CalEvent(Ev("grandma-birthday", getGrandmaBirthdayKey(YearsInView[i]),
                 getGrandmaBirthdayKey(YearsInView[i]), T(0, 0), T(23, 59),
                 "Grandma's birthday (lunar)", TRUE, "none"),
              "system")]

\* the memo displayEvents
displayEvents == calEvents \o userBirthdayEvent \o grandmaBirthdayEvents

\* the comparator of sortEvents: by start date, then by start minute
CalendarCompare(a, b) ==
  IF a.startDate # b.startDate
  THEN IF DateKeyLess(a.startDate, b.startDate) THEN -1 ELSE 1
  ELSE IF IsNaN(toMinutes(a.start)) \/ IsNaN(toMinutes(b.start)) THEN 0
  ELSE toMinutes(a.start) - toMinutes(b.start)

RECURSIVE InsertCalendarEvent(_, _)
InsertCalendarEvent(e, sorted) ==
  IF sorted = <<>> THEN <<e>>
  ELSE IF CalendarCompare(e, Head(sorted)) < 0 THEN <<e>> \o sorted
       ELSE <<Head(sorted)>> \o InsertCalendarEvent(e, Tail(sorted))

\* [...list].sort(comparator), a stable sort
RECURSIVE sortEvents(_)
sortEvents(list) ==
  IF list = <<>> THEN <<>>
  ELSE InsertCalendarEvent(list[Len(list)], sortEvents(SubSeq(list, 1, Len(list) - 1)))

\* saveEvents: the text stored holds the events, field for field
saveEvents(list) == list

\* the load effect of the calendar: loadEvents returns events without source
CalendarMount ==
  /\ ~calMounted
  /\ calMounted' = TRUE
  /\ LET loaded == loadEvents(eventsStore)
     IN  calEvents' = [i \in 1..Len(loaded) |-> CalEvent(loaded[i], "undef")]
  /\ UNCHANGED <<profile, calNotice, storeVars, viewVars, fnVars, editorVars, logVars>>

\* the profiles loadProfile sets: null, or a name with a birthdate that is a
\* date or is none
Profile(name, relation, birthdate) ==
  [def |-> TRUE, name |-> name, relation |-> relation, birthdate |-> birthdate]

ProfileInputs ==
  { NoProfile,
    Profile("Kim", "", DK(1990, 3, 14)),
    Profile("Kim", "son", DK(1990, 3, 0)) }

\* loadProfile, at the mount and at a change of the auth state
LoadProfile ==
  /\ calMounted
  /\ \E p \in ProfileInputs :
       /\ p # profile
       /\ profile' = p
  /\ UNCHANGED <<calMounted, calEvents, calNotice, storeVars, viewVars, fnVars,
                 editorVars, logVars>>

\* validateForm: TRUE for an error message
validateForm(form) ==
  LET effectiveEndDate == IF form.repeat = "none" THEN form.endDate ELSE form.startDate
  IN  \/ form.startDate = NoKey \/ effectiveEndDate = NoKey
      \/ Trim(form.label) = ""
      \/ DateKeyLess(effectiveEndDate, form.startDate)
      \/ /\ ~form.allDay
         /\ \/ IsNaN(toMinutes(form.start)) \/ IsNaN(toMinutes(form.end))
            \/ toMinutes(form.start) >= toMinutes(form.end)

\* a faulty variant of EventsOf: the events on display are extended
EventsOnDisplay(list) == displayEvents

\* [...events]
EventsOf(list) == list

\* handleSubmit of the calendar, with the id createEventId makes
calendarSubmit(form, id) ==
  IF validateForm(form)
  THEN /\ calNotice' = "error"
       /\ UNCHANGED <<calEvents, eventsStore>>
  ELSE LET effectiveEndDate == IF form.repeat = "none" THEN form.endDate
                               ELSE form.startDate
           nextEvent ==
             CalEvent(Ev(id, form.startDate, effectiveEndDate,
                         IF form.allDay THEN T(0, 0) ELSE form.start,
                         IF form.allDay THEN T(23, 59) ELSE form.end,
                         Trim(form.label), form.allDay, form.repeat),
                      "user")
           nextEvents == sortEvents(Append(EventsOf(calEvents), nextEvent))
       IN  /\ calEvents' = nextEvents
           /\ eventsStore' = saveEvents(nextEvents)
           /\ calNotice' = "success"

\* events.filter((event) => event.id !== id)
RECURSIVE WithoutId(_, _)
WithoutId(list, id) ==
  IF list = <<>> THEN <<>>
  ELSE IF Head(list).id # id THEN <<Head(list)>> \o WithoutId(Tail(list), id)
       ELSE WithoutId(Tail(list), id)

\* handleDelete of the calendar
calendarDelete(id) ==
  LET nextEvents == WithoutId(calEvents, id)
  IN  /\ calEvents' = nextEvents
      /\ eventsStore' = saveEvents(nextEvents)
      /\ calNotice' = "success"

\* the number of events the list is extended to
MaxCalEvents == 2

\* the ids createEventId makes, in turn
EventIds == <<"n1", "n2", "n3">>

\* an id no event of the list has
createEventId ==
  LET used == {calEvents[i].id : i \in 1..Len(calEvents)}
      free == {k \in 1..Len(EventIds) : EventIds[k] \notin used}
  IN  EventIds[CHOOSE k \in free : \A j \in free : k <= j]

CalForm(startDate, endDate, start, end, label, allDay, repeat) ==
  [startDate |-> startDate, endDate |-> endDate, start |-> start, end |-> end,
   label |-> label, allDay |-> allDay, repeat |-> repeat]

\* the forms submitted: a timed and an all-day event, a yearly one whose end
\* date is before its start date, and forms with no date, a blank label, an
\* end date before the start date, and an end time before the start time
CalFormInputs ==
  { CalForm(DK(2024, 3, 14), DK(2024, 3, 14), T(9, 0), T(10, 0), "Visit", FALSE, "none"),
    CalForm(DK(2024, 3, 13), DK(2024, 3, 15), T(9, 0), T(10, 0), " A ", TRUE, "none"),
    CalForm(DK(2024, 3, 14), DK(2024, 3, 13), T(9, 0), T(10, 0), "A", FALSE, "yearly"),
    CalForm(NoKey, NoKey, T(9, 0), T(10, 0), "A", FALSE, "none"),
    CalForm(DK(2024, 3, 14), DK(2024, 3, 14), T(9, 0), T(10, 0), " ", FALSE, "none"),
    CalForm(DK(2024, 3, 14), DK(2024, 3, 13), T(9, 0), T(10, 0), "A", FALSE, "none"),
    CalForm(DK(2024, 3, 14), DK(2024, 3, 14), T(10, 0), T(9, 0), "A", FALSE, "none") }

\* the form of the add modal is submitted
CalendarSubmit ==
  /\ calMounted
  /\ Len(calEvents) < MaxCalEvents
  /\ \E form \in CalFormInputs :
       calendarSubmit(form, createEventId)
  /\ UNCHANGED <<calMounted, profile, scheduleStore, doneStore, viewVars, fnVars,
                 editorVars, logVars>>

\* the delete button of an event on display; a system event has none
CalendarDelete ==
  /\ calMounted
  /\ \E i \in 1..Len(displayEvents) :
       /\ displayEvents[i].source # "system"
       /\ calendarDelete(displayEvents[i].id)
  /\ UNCHANGED <<calMounted, profile, scheduleStore, doneStore, viewVars, fnVars,
                 editorVars, logVars>>

(***************************************************************************)
(* SpecCalendar: the family calendar on the month of BaseDay, opened over  *)
(* no stored events or over events it stored before, where the profile is  *)
(* loaded and events are added, up to MaxCalEvents of them, and deleted.    *)
(***************************************************************************)
CalendarStoreCatalog ==
  { <<>>,
    saveEvents(<< CalEvent(EvAllDay, "user") >>),
    saveEvents(<< CalEvent(EvAllDay, "undef"), CalEvent(EvTimed, "user") >>) }

InitCalendar ==
  \E stored \in CalendarStoreCatalog :
    ConstructedOver(540, Undef, stored, <<>>) /\ NoCall

NextCalendar ==
  \/ CalendarMount
  \/ LoadProfile
  \/ CalendarSubmit
  \/ CalendarDelete

SpecCalendar == InitCalendar /\ [][NextCalendar]_vars

\* the events on display that are made from the profile and the lunar calendar
SystemEventsOnDisplay ==
  {displayEvents[i] : i \in {j \in 1..Len(displayEvents) : displayEvents[j].source = "system"}}

\* C19: whatever events are added and deleted in the family calendar, no
\* stored event is a system event: none has the source system, and none is a
\* birthday event on display.
C19_NoSystemEventStored ==
  \A i \in 1..Len(eventsStore) :
    /\ eventsStore[i].source # "system"
    /\ \A e \in SystemEventsOnDisplay : eventsStore[i].id # e.id

\* C19: with the birthday of the profile and that of the lunar calendar on
\* display, two events were added and the first of them deleted: the second
\* is all that is stored.
C19_Witness ==
  /\ calMounted /\ calNotice = "success"
  /\ Cardinality(SystemEventsOnDisplay) = 2
  /\ Len(displayEvents) = 3
  /\ Len(eventsStore) = 1
  /\ eventsStore[1].id = "n2" /\ eventsStore[1].source = "user"
  /\ eventsStore = calEvents


-----------------------------------------------------------------------------
(* Storage: the loaders over the text localStorage holds *)

\* what localStorage.getItem returns: null (missing), the empty string, a
\* text that is no JSON, or the JSON text of a value: an array of items, or
\* a value that is no array (items is <<>> then)
StoredText(kind, isArray, items) == [kind |-> kind, isArray |-> isArray, items |-> items]

\* an item of a stored array: an object with the fields of rec, or a value
\* that is no object (null, a number, a string)
StoredItem(isObject, rec) == [isObject |-> isObject, rec |-> rec]

\* item && typeof item === "object"
IsObject(item) == item.isObject

\* a value of start or end that is no string
NotAString == [hh |-> -2, mm |-> -2, ws |-> FALSE]

\* the record test of loadSchedule: an object whose start and end are strings
IsBlockRecord(item) ==
  /\ IsObject(item)
  /\ item.rec.start # NotAString /\ item.rec.end # NotAString

\* the outcome of a function body: a value returned, or an error raised
Value(v) == [raised |-> FALSE, value |-> v]

Raised(v) == [raised |-> TRUE, value |-> v]

\* a faulty variant of Caught: the error is raised to the caller
Uncaught(outcome, fallback) == outcome

\* try { ... } catch { return fallback }
Caught(outcome, fallback) == IF outcome.raised THEN Value(fallback) ELSE outcome

\* the records of the items that pass the test
RecordsOf(kept) == [i \in 1..Len(kept) |-> kept[i].rec]

\* loadSchedule over the stored text; JSON.parse raises on a text that is no
\* JSON
loadScheduleText(raw) ==
  IF raw.kind \in {"missing", "empty"} THEN Value(Undef)
  ELSE Caught(IF raw.kind = "text" THEN Raised(Undef)
              ELSE IF ~raw.isArray THEN Value(Undef)
              ELSE Value(loadSchedule(Some(RecordsOf(SelectSeq(raw.items, IsBlockRecord))))),
              Undef)

\* loadEvents over the stored text
loadEventsText(raw) ==
  IF raw.kind \in {"missing", "empty"} THEN Value(<<>>)
  ELSE Caught(IF raw.kind = "text" THEN Raised(<<>>)
              ELSE IF ~raw.isArray THEN Value(<<>>)
              ELSE Value(loadEvents(RecordsOf(SelectSeq(raw.items, IsObject)))),
              <<>>)

\* loadDoneActivities over the stored text
loadDoneActivitiesText(raw) ==
  IF raw.kind \in {"missing", "empty"} THEN Value(<<>>)
  ELSE Caught(IF raw.kind = "text" THEN Raised(<<>>)
              ELSE IF ~raw.isArray THEN Value(<<>>)
              ELSE Value(loadDoneActivities(Some(RecordsOf(SelectSeq(raw.items, IsObject))))),
              <<>>)

\* loadDoneSet over the stored text: the set of the items of the array
loadDoneSetText(raw) ==
  IF raw.kind \in {"missing", "empty"} THEN Value({})
  ELSE Caught(IF raw.kind = "text" THEN Raised({})
              ELSE IF ~raw.isArray THEN Value({})
              ELSE Value({raw.items[i] : i \in 1..Len(raw.items)}),
              {})

\* the loader of the name
Read(loader, raw) ==
  CASE loader = "loadSchedule" -> loadScheduleText(raw)
    [] loader = "loadEvents" -> loadEventsText(raw)
    [] loader = "loadDoneActivities" -> loadDoneActivitiesText(raw)
    [] OTHER -> loadDoneSetText(raw)

(***************************************************************************)
(* SpecReads: each loader called over a missing key, the empty string, a   *)
(* text that is no JSON, the JSON text of a value that is no array, and    *)
(* the JSON text of each array of up to MaxStored items: records that      *)
(* load, records that do not, and values that are no objects.              *)
(***************************************************************************)
MaxStored == 2

\* stored blocks: A 09:00-09:10 and B 09:10-09:20, which load; C 09:00-09:20,
\* which overlaps both; D with an end that is no time; a record whose start
\* is no string; and a value that is no object
BlockItems ==
  { StoredItem(TRUE, TB(SlotTime(0), SlotTime(1), StrLabel("A"), Undef, Some(<<5>>), "start")),
    StoredItem(TRUE, TB(SlotTime(1), SlotTime(2), StrLabel("B"), Undef, Undef, "undef")),
    StoredItem(TRUE, TB(SlotTime(0), SlotTime(2), StrLabel("C"), Undef, Undef, "undef")),
    StoredItem(TRUE, TB(SlotTime(0), NoMatchTime, StrLabel("D"), Undef, Undef, "undef")),
    StoredItem(TRUE, TB(NotAString, SlotTime(1), StrLabel("E"), Undef, Undef, "undef")),
    StoredItem(FALSE, TB(NotAString, NotAString, NoLabel, Undef, Undef, "undef")) }

\* stored events: two that load, one with a blank label, one whose end is
\* before its start, and a value that is no object
EventItems ==
  { StoredItem(TRUE, EvAllDay),
    StoredItem(TRUE, EvTimed),
    StoredItem(TRUE, [EvTimed EXCEPT !.id = "e3", !.label = " "]),
    StoredItem(TRUE, [EvTimed EXCEPT !.id = "e4", !.end = T(9, 0)]),
    StoredItem(FALSE, [EvTimed EXCEPT !.id = ""]) }

\* stored items of the log: two that load, one with a blank title, one whose
\* completedAt is no date, and a value that is no object
ActivityItems ==
  { StoredItem(TRUE, DoneActivityItem(2, "A", 2, getDateKey(BaseDay))),
    StoredItem(TRUE, DoneActivityItem(1, " A ", 1, getDateKey(BaseDay))),
    StoredItem(TRUE, DoneActivityItem(3, " ", 3, getDateKey(BaseDay))),
    StoredItem(TRUE, DoneActivityItem(4, "A", -1, getDateKey(BaseDay))),
    StoredItem(FALSE, DoneActivityItem(-1, "", -1, NoKey)) }

\* stored indices of a done-set
IndexItems == 0..2

ItemsOf(loader) ==
  CASE loader = "loadSchedule" -> BlockItems
    [] loader = "loadEvents" -> EventItems
    [] loader = "loadDoneActivities" -> ActivityItems
    [] OTHER -> IndexItems

Loaders == {"loadSchedule", "loadEvents", "loadDoneActivities", "loadDoneSet"}

ReadCall(loader, raw) == [op |-> "read", loader |-> loader, raw |-> raw]

InitReads ==
  /\ Unmounted
  /\ fnResult = Pending
  /\ \E loader \in Loaders :
       \/ \E kind \in {"missing", "empty", "text"} :
            fnArgs = ReadCall(loader, StoredText(kind, FALSE, <<>>))
       \/ fnArgs = ReadCall(loader, StoredText("json", FALSE, <<>>))
       \/ \E items \in SeqsUpTo(ItemsOf(loader), MaxStored) :
            fnArgs = ReadCall(loader, StoredText("json", TRUE, items))

CallRead ==
  /\ fnArgs.op = "read"
  /\ ~fnResult.done
  /\ fnResult' = Returned(Read(fnArgs.loader, fnArgs.raw))
  /\ UNCHANGED <<elderVars, pageVars, fnArgs>>

NextReads == CallRead

SpecReads == InitReads /\ [][NextReads]_vars

\* the empty value of a loader: null for loadSchedule, no element for the others
EmptyValue(loader) ==
  CASE loader = "loadSchedule" -> Undef
    [] loader = "loadDoneSet" -> {}
    [] OTHER -> <<>>

\* the stored items that are malformed: values that are no objects, a block
\* whose start is no string, an event with a blank label or with no time
\* between its start and end, a log item with a blank title or with a
\* completedAt that is no date
MalformedItem(loader, item) ==
  CASE loader = "loadDoneSet" -> FALSE
    [] loader = "loadSchedule" -> ~item.isObject \/ item.rec.start = NotAString
    [] loader = "loadEvents" -> ~item.isObject \/ item.rec.id \in {"e3", "e4"}
    [] OTHER -> ~item.isObject \/ item.rec.id \in {3, 4}

\* the stored array without its malformed items
RECURSIVE WellFormedOf(_, _)
WellFormedOf(loader, items) ==
  IF items = <<>> THEN <<>>
  ELSE IF MalformedItem(loader, Head(items)) THEN WellFormedOf(loader, Tail(items))
       ELSE <<Head(items)>> \o WellFormedOf(loader, Tail(items))

\* C20: no read raises an error; a read of a missing key, of a text that is
\* no JSON and of a value that is no array returns the empty value (null for
\* loadSchedule); loadSchedule returns null for blocks that fail
\* validateSchedule; and a read of an array returns what it returns for the
\* array without its malformed items, one value for each of the others
\* where the loader is not loadSchedule.
C20_ReadsTolerant ==
  fnResult.done =>
    LET loader == fnArgs.loader
        raw == fnArgs.raw
        result == fnResult.value
        rest == WellFormedOf(loader, raw.items)
    IN  /\ ~result.raised
        /\ (raw.kind # "json" \/ ~raw.isArray) => result.value = EmptyValue(loader)
        /\ (raw.kind = "json" /\ raw.isArray) =>
             /\ result = Read(loader, StoredText("json", TRUE, rest))
             /\ loader = "loadSchedule" =>
                  result.value = IF validateSchedule(RecordsOf(rest)).ok
                                 THEN Some(RecordsOf(rest)) ELSE Undef
             /\ loader \in {"loadEvents", "loadDoneActivities"} =>
                  Len(result.value) = Len(rest)

\* C20: loadSchedule over the array of a value that is no object and the
\* block A returned the block A.
C20_Witness ==
  /\ fnResult.done
  /\ fnArgs.loader = "loadSchedule"
  /\ Len(fnArgs.raw.items) = 2
  /\ ~fnArgs.raw.items[1].isObject
  /\ fnResult.value = Value(Some(<<fnArgs.raw.items[2].rec>>))


-----------------------------------------------------------------------------
(* The elder view: its timers and its teardown *)

\* what a step leaves alone where the timers are kept track of
offVars == <<fnVars, pageVars, timers>>

\* the toggles after which the flash interval clears itself
FlashToggles == 11

\* triggerAlert: clearAlertTimers, startFlash, and the 8-second timeout
AlertTimersSet(h) == [h EXCEPT !.flash = TRUE, !.toggles = 0, !.alertTimeout = TRUE]

\* the alert effect has run for the block list bl: its 15-second interval is
\* set anew, or none is set without blocks; an alert its tick triggered sets
\* the timers of the alert
AfterAlertEffect(h, bl) ==
  LET set == [h EXCEPT !.alert = Len(bl) > 0]
  IN  IF fired' # fired THEN AlertTimersSet(set) ELSE set

\* the effects of the first render set the three intervals
TornMount ==
  /\ MountStep
  /\ handles' = AfterAlertEffect([handles EXCEPT !.clock = TRUE, !.index = Len(blocks) > 0],
                                 blocks)
  /\ UNCHANGED offVars

TornMountEffects ==
  /\ MountEffectsStep
  /\ handles' = AfterAlertEffect([handles EXCEPT !.index = Len(blocks) > 0], blocks)
  /\ UNCHANGED offVars

\* the callback of the 1-second interval; a new done-set reruns the alert effect
TornClockInterval ==
  /\ handles.clock
  /\ ClockIntervalStep
  /\ handles' = IF doneSet' # doneSet \/ fired' # fired
                THEN AfterAlertEffect(handles, blocks) ELSE handles
  /\ UNCHANGED offVars

\* the callback of the 30-second interval
TornIndexInterval ==
  /\ handles.index
  /\ IndexIntervalStep
  /\ UNCHANGED <<handles, offVars>>

\* the callback of the 15-second interval
TornAlertInterval ==
  /\ handles.alert
  /\ AlertIntervalStep
  /\ handles' = IF fired' # fired THEN AlertTimersSet(handles) ELSE handles
  /\ UNCHANGED offVars

\* the callback of the 200 ms flash interval: it clears itself with the last
\* toggle
FlashTick ==
  /\ phase \in {"effects", "mounted"}
  /\ handles.flash
  /\ handles' = [handles EXCEPT !.toggles = @ + 1,
                                !.flash = handles.toggles + 1 < FlashToggles]
  /\ UNCHANGED <<phase, wall, now, timeBlocks, blocks, currentIndex, previewVars, doneSet,
                 currentDateKey, events, modalVars, storeVars, alertVars, offVars>>

\* the callback of the 8-second timeout: stopAlert
AlertTimeout ==
  /\ phase \in {"effects", "mounted"}
  /\ handles.alertTimeout
  /\ handles' = [handles EXCEPT !.alertTimeout = FALSE, !.flash = FALSE]
  /\ UNCHANGED <<phase, wall, now, timeBlocks, blocks, currentIndex, previewVars, doneSet,
                 currentDateKey, events, modalVars, storeVars, alertVars, offVars>>

\* showPreview sets the 3-second timeout
TornPreview ==
  /\ PreviewStep
  /\ handles' = [handles EXCEPT !.preview = TRUE]
  /\ UNCHANGED offVars

\* the callback of the 3-second timeout
TornPreviewTimeout ==
  /\ handles.preview
  /\ PreviewTimeoutStep
  /\ handles' = [handles EXCEPT !.preview = FALSE]
  /\ UNCHANGED offVars

\* handleDoneClick: a mark sets the 2-second timeout of the modal; the new
\* done-set reruns the alert effect
TornDoneClick ==
  /\ DoneClickStep
  /\ handles' =
       IF doneSet' = doneSet THEN handles
       ELSE AfterAlertEffect([handles EXCEPT !.doneModal = @ \/ doneSet \subseteq doneSet'],
                             blocks)
  /\ UNCHANGED offVars

\* closeDoneModal, by its timeout or by a click: the timeout is cleared, and
\* the automatic slide sets that of the preview
TornCloseDoneModal ==
  /\ CloseDoneModalStep
  /\ handles' = [handles EXCEPT !.doneModal = FALSE,
                                !.preview = @ \/ previewIndex' # previewIndex]
  /\ UNCHANGED offVars

\* the cleanups of the three interval effects
IntervalCleanup(h) == [h EXCEPT !.clock = FALSE, !.index = FALSE, !.alert = FALSE]

\* a faulty variant of TimerCleanup: the timeout of the done modal is left
TimerCleanupOfAlerts(h) ==
  [h EXCEPT !.preview = FALSE, !.alertTimeout = FALSE, !.flash = FALSE]

\* the cleanups of the two timer effects: the timeouts of the preview, of the
\* alert and of the done modal, and the flash interval
TimerCleanup(h) ==
  [h EXCEPT !.preview = FALSE, !.alertTimeout = FALSE, !.flash = FALSE,
            !.doneModal = FALSE]

\* the view is torn down: the cleanups of its effects run
Teardown ==
  /\ phase \in {"effects", "mounted"}
  /\ phase' = "torn"
  /\ handles' = TimerCleanup(IntervalCleanup(handles))
  /\ UNCHANGED <<wall, now, timeBlocks, blocks, currentIndex, previewVars, doneSet,
                 currentDateKey, events, modalVars, storeVars, alertVars, offVars>>

(***************************************************************************)
(* SpecTeardown: the elder view constructed at 08:50 over a stored         *)
(* schedule or none, with its timers kept track of: alerts are triggered,  *)
(* previews shown, blocks marked done, and the view is torn down at any    *)
(* point after its first effects. The clock is read at the minutes of      *)
(* ClockMinutes of one day.                                                *)
(***************************************************************************)
InitTeardown ==
  \E schedule \in ScheduleCatalog :
    Constructed(530, schedule, <<>>) /\ NoCall

NextTeardown ==
  \/ TornMount
  \/ TornMountEffects
  \/ WallAdvanceIn(ClockMinutes, 0)
  \/ TornClockInterval
  \/ TornIndexInterval
  \/ TornAlertInterval
  \/ FlashTick
  \/ AlertTimeout
  \/ TornPreview
  \/ TornPreviewTimeout
  \/ TornDoneClick
  \/ TornCloseDoneModal
  \/ Teardown

SpecTeardown == InitTeardown /\ [][NextTeardown]_vars

\* the timers that are set: their callbacks are yet to run
TimersSet ==
  {t \in {"clock", "index", "alert", "flash", "alertTimeout", "preview", "doneModal"} :
     handles[t]}

\* C21: once the elder view is torn down no timer of it is set, so none of
\* its callbacks runs any more: not the 1-second, 30-second and 15-second
\* intervals, not the flash interval, and not the timeouts of the preview,
\* of the alert and of the done modal.
C21_NoTimerAfterTeardown == phase = "torn" => TimersSet = {}

\* C21: the view was torn down with an alert triggered, a preview on display
\* and the done modal open, each before its timeout.
C21_Witness ==
  /\ phase = "torn"
  /\ DOMAIN fired # {}
  /\ handles.toggles < FlashToggles
  /\ previewIndex # -1
  /\ doneModalOpen /\ doneSet # {}
  /\ TimersSet = {}


-----------------------------------------------------------------------------
(***************************************************************************)
(* SpecBuildAny: buildBlocks called on any TimeBlock, validated or not: the *)
(* start and the end are times of day or texts toMinutes does not read     *)
(* (no match of the pattern, an hour of 25, surrounding blanks), the end   *)
(* may lie before the start, and the tasks or the label may be missing,    *)
(* empty or blank.  The block is alone or followed by a plain block.       *)
(***************************************************************************)
AnyStarts == {T(9, 0), NoMatchTime, [T(9, 0) EXCEPT !.ws = TRUE]}

AnyEnds == {T(9, 3), T(10, 0), T(8, 0), T(25, 0)}

AnyBlocks ==
  {TB(s, e, l, Some(t), Undef, "undef") :
     s \in AnyStarts, e \in AnyEnds, l \in {NoLabel, StrLabel("A")},
     t \in TaskInputs}
  \cup
  {TB(s, e, l, Undef, Undef, "undef") :
     s \in AnyStarts, e \in AnyEnds,
     l \in {NoLabel, StrLabel("A"), StrLabel(" "), ArrLabel(<<>>),
            ArrLabel(<<" ", " ">>), ArrLabel(<<"A", " ", "B">>)}}

AfterBlock == Plain(T(11, 0), T(12, 0), "rest")

InitBuildAny ==
  /\ Unmounted
  /\ \E b \in AnyBlocks, tail \in {<<>>, <<AfterBlock>>} :
       fnArgs = [op |-> "buildBlocks", blocks |-> <<b>> \o tail]
  /\ fnResult = Pending

SpecBuildAny == InitBuildAny /\ [][NextBuild]_vars

\* the tasks given for the first block of the call, before any trimming
GivenTasks ==
  LET b == fnArgs.blocks[1]
  IN  IF b.tasks.def THEN b.tasks.list
      ELSE IF b.label.def THEN b.label.parts
      ELSE <<>>

\* toMinutes reads the start and the end of the first block of the call
TimesRead ==
  /\ toMinutes(fnArgs.blocks[1].start) # NaN
  /\ toMinutes(fnArgs.blocks[1].end) # NaN

\* the BuiltBlocks of the result that come from the first block of the call
BuiltOfFirst ==
  SubSeq(fnResult.value, 1, Len(fnResult.value) - (Len(fnArgs.blocks) - 1))

\* C22 as stated: buildBlocks never drops an interval: every input
\* TimeBlock yields max(1, number of non-empty trimmed tasks) BuiltBlocks,
\* a block without a usable task yielding one block with an empty label and
\* the original boundaries.
C22_EveryBlockBuilt ==
  fnResult.done =>
    /\ Len(BuiltOfFirst) = Max2(1, Len(NonBlank(GivenTasks)))
    /\ NonBlank(GivenTasks) = <<>> =>
         /\ BuiltOfFirst[1].label = ""
         /\ BuiltOfFirst[1].start = fnArgs.blocks[1].start
         /\ BuiltOfFirst[1].end = fnArgs.blocks[1].end

\* C22 amended: a TimeBlock whose start and end toMinutes reads yields
\* max(1, number of non-empty trimmed tasks) BuiltBlocks, in the place of
\* the block in the list, and when it has no usable task it yields one block
\* with an empty label and the original boundaries; a TimeBlock whose start
\* or end toMinutes does not read yields no BuiltBlock at all, and the
\* blocks after it are built all the same.
C22_ReadableBlockBuilt ==
  fnResult.done =>
    /\ TimesRead =>
         /\ Len(BuiltOfFirst) = Max2(1, Len(NonBlank(GivenTasks)))
         /\ NonBlank(GivenTasks) = <<>> =>
              /\ BuiltOfFirst[1].label = ""
              /\ BuiltOfFirst[1].start = fnArgs.blocks[1].start
              /\ BuiltOfFirst[1].end = fnArgs.blocks[1].end
              /\ BuiltOfFirst[1].startMin = toMinutes(fnArgs.blocks[1].start)
              /\ BuiltOfFirst[1].endMin = toMinutes(fnArgs.blocks[1].end)
    /\ ~TimesRead => BuiltOfFirst = <<>>
    /\ Len(fnArgs.blocks) = 2 =>
         /\ Len(fnResult.value) >= 1
         /\ fnResult.value[Len(fnResult.value)].label = "rest"
         /\ fnResult.value[Len(fnResult.value)].startMin = 660

\* buildBlocks has returned one BuiltBlock with an empty label for a block
\* of readable times whose three tasks are all blank, a label notwithstanding
C22_Witness ==
  /\ fnResult.done
  /\ TimesRead
  /\ fnArgs.blocks[1].tasks.def
  /\ Len(fnArgs.blocks[1].tasks.list) = 3
  /\ fnArgs.blocks[1].label.def
  /\ Len(fnResult.value) = 1
  /\ fnResult.value[1].label = ""


-----------------------------------------------------------------------------
(***************************************************************************)
(* SpecAlertList: getAlertMinutesForBlock called on a block without        *)
(* alertMinutes, with an empty array, or with an array of up to MaxAlerts  *)
(* numbers, whole or fractional, among them zero, negative numbers, halves,*)
(* numbers around 1440 and repeated numbers.  Numbers that are not finite  *)
(* are not among them: JSON has none and loadSchedule keeps finite ones.   *)
(***************************************************************************)
MaxAlerts == 3

\* an alertMinutes array of the numbers list[i] + tenths[i] / 10
Fractions(list, tenths) == [def |-> TRUE, list |-> list, tenths |-> tenths]

\* <<whole, tenths>> of the numbers 0.4, 0.5, 4.5, 4.6, 5, -2.5, 10,
\* 1439.4, 1439.5, 1440
AlertNumbers ==
  {<<0, 4>>, <<0, 5>>, <<4, 5>>, <<4, 6>>, <<5, 0>>, <<-3, 5>>, <<10, 0>>,
   <<1439, 4>>, <<1439, 5>>, <<1440, 0>>}

AlertListInputs ==
  {Undef} \cup
  {Fractions([i \in 1..Len(l) |-> l[i][1]], [i \in 1..Len(l) |-> l[i][2]]) :
     l \in SeqsUpTo(AlertNumbers, MaxAlerts)}

InitAlertList ==
  /\ Unmounted
  /\ \E a \in AlertListInputs :
       fnArgs = [op |-> "getAlertMinutesForBlock", block |-> [alertMinutes |-> a]]
  /\ fnResult = Pending

CallAlertList ==
  /\ fnArgs.op = "getAlertMinutesForBlock"
  /\ ~fnResult.done
  /\ fnResult' = Returned(getAlertMinutesForBlock(fnArgs.block))
  /\ UNCHANGED <<elderVars, pageVars, fnArgs>>

NextAlertList == CallAlertList

SpecAlertList == InitAlertList /\ [][NextAlertList]_vars

\* the numbers the call starts from, in tenths of a minute: the block's own
\* when it has any, 30, 10 and 5 minutes otherwise
SourceTenths ==
  LET a == fnArgs.block.alertMinutes
  IN  IF a.def /\ Len(a.list) > 0
      THEN [i \in 1..Len(a.list) |-> 10 * a.list[i] + a.tenths[i]]
      ELSE <<300, 100, 50>>

\* the whole number nearest to x tenths, a half going up
NearestWhole(x) == CHOOSE r \in -5..1441 : 10 * r - 5 <= x /\ x < 10 * r + 5

\* the first place of the source whose number rounds to minute m, 0 if none
FirstPlace(m) ==
  LET places == {i \in 1..Len(SourceTenths) : NearestWhole(SourceTenths[i]) = m}
  IN  IF places = {} THEN 0 ELSE CHOOSE i \in places : \A j \in places : i <= j

\* C23: the effective alert minutes of a block are its own alertMinutes
\* when that array is not empty and 30, 10, 5 otherwise, rounded, with the
\* values <= 0 or >= 1440 left out and of equal values only the first kept,
\* in the order of their first occurrence: so no alert minute occurs twice
C23_EffectiveAlertMinutes ==
  fnResult.done =>
    LET result == fnResult.value
    IN  /\ \A i, j \in 1..Len(result) : i # j => result[i] # result[j]
        /\ \A i \in 1..Len(result) :
             /\ result[i] > 0 /\ result[i] < 1440
             /\ FirstPlace(result[i]) # 0
        /\ \A p \in 1..Len(SourceTenths) :
             LET m == NearestWhole(SourceTenths[p])
             IN  m > 0 /\ m < 1440 => \E i \in 1..Len(result) : result[i] = m
        /\ \A i, j \in 1..Len(result) :
             i < j => FirstPlace(result[i]) < FirstPlace(result[j])

\* the call on [4.6, 1439.5, 4.5, 0.4] has returned [5]: 4.6 and 4.5 both
\* round to 5, 1439.5 rounds to 1440 and 0.4 to 0
C23_Witness ==
  /\ fnResult.done
  /\ fnArgs.block.alertMinutes.def
  /\ fnArgs.block.alertMinutes.list = <<4, 1439, 4>>
  /\ fnArgs.block.alertMinutes.tenths = <<6, 5, 5>>
  /\ fnResult.value = <<5>>


-----------------------------------------------------------------------------
(***************************************************************************)
(* SpecTimeText: the two conversions between minutes of the day and time   *)
(* strings, on the characters of the strings.  A text is a sequence of     *)
(* characters; the records T(h, m) of the model stand for the texts that   *)
(* match the pattern of toMinutes, NoMatchTime for those that do not.      *)
(* minutesToTime is called on every minute of 0..1440, toMinutes on every  *)
(* text of up to MaxText characters drawn from digits, the colon and the   *)
(* blank.                                                                  *)
(***************************************************************************)
MaxText == 5

DigitChars == <<"0", "1", "2", "3", "4", "5", "6", "7", "8", "9">>

\* Number(c) of a character that is a digit
DigitValue(c) == CHOOSE d \in 0..9 : DigitChars[d + 1] = c

IsDigit(c) == \E d \in 0..9 : DigitChars[d + 1] = c

\* String(value) of a number of 0..999
RECURSIVE StringOfNumber(_)
StringOfNumber(value) ==
  IF value < 10 THEN <<DigitChars[value + 1]>>
  ELSE StringOfNumber(value \div 10) \o <<DigitChars[(value % 10) + 1]>>

\* a faulty variant of pad2: nothing is put before a single digit
pad2Unpadded(value) == StringOfNumber(value)

\* String(value).padStart(2, "0")
pad2(value) ==
  LET text == StringOfNumber(value)
  IN  IF Len(text) < 2 THEN <<"0">> \o text ELSE text

\* the template `${pad2(hours)}:${pad2(mins)}` of the time a record stands for
TextOfTime(t) == pad2(t.hh) \o <<":">> \o pad2(t.mm)

\* /^(\d{2}):(\d{2})$/.exec(timeStr) with Number() of the two groups
MatchTime(text) ==
  IF /\ Len(text) = 5
     /\ IsDigit(text[1]) /\ IsDigit(text[2])
     /\ text[3] = ":"
     /\ IsDigit(text[4]) /\ IsDigit(text[5])
  THEN T(10 * DigitValue(text[1]) + DigitValue(text[2]),
         10 * DigitValue(text[4]) + DigitValue(text[5]))
  ELSE NoMatchTime

TextChars == {"0", "2", "4", "6", "9", ":", " "}

InitTimeText ==
  /\ Unmounted
  /\ \/ \E m \in 0..DAY_MINUTES : fnArgs = [op |-> "minutesToTime", minutes |-> m]
     \/ \E t \in SeqsUpTo(TextChars, MaxText) : fnArgs = [op |-> "toMinutes", text |-> t]
  /\ fnResult = Pending

\* toMinutes(minutesToTime(minutes))
CallMinutesToTime ==
  /\ fnArgs.op = "minutesToTime"
  /\ ~fnResult.done
  /\ LET text == TextOfTime(minutesToTime(fnArgs.minutes))
     IN  fnResult' = Returned([text |-> text, minutes |-> toMinutes(MatchTime(text))])
  /\ UNCHANGED <<elderVars, pageVars, fnArgs>>

\* minutesToTime(toMinutes(text)), for a text toMinutes accepts
CallToMinutes ==
  /\ fnArgs.op = "toMinutes"
  /\ ~fnResult.done
  /\ LET minutes == toMinutes(MatchTime(fnArgs.text))
     IN  fnResult' = Returned([minutes |-> minutes,
                               text |-> IF IsNaN(minutes) THEN <<>>
                                        ELSE TextOfTime(minutesToTime(minutes))])
  /\ UNCHANGED <<elderVars, pageVars, fnArgs>>

NextTimeText == CallMinutesToTime \/ CallToMinutes

SpecTimeText == InitTimeText /\ [][NextTimeText]_vars

\* C24: toMinutes(minutesToTime(m)) = m for every whole m of 0..1440, 1440
\* going to "24:00" and back, and minutesToTime(toMinutes(t)) = t for every
\* time string t that toMinutes accepts
C24_TimeRoundTrip ==
  fnResult.done =>
    /\ fnArgs.op = "minutesToTime" =>
         /\ fnResult.value.minutes = fnArgs.minutes
         /\ fnArgs.minutes = 1440 => fnResult.value.text = <<"2", "4", ":", "0", "0">>
    /\ fnArgs.op = "toMinutes" /\ fnResult.value.minutes # NaN =>
         fnResult.value.text = fnArgs.text

\* 1440 has been turned into "24:00" and read back as 1440
C24_Witness ==
  /\ fnResult.done
  /\ fnArgs.op = "minutesToTime"
  /\ fnArgs.minutes = 1440
  /\ fnResult.value.text = <<"2", "4", ":", "0", "0">>
  /\ fnResult.value.minutes = 1440


-----------------------------------------------------------------------------
(* The done button behind previews, under SpecDisplay *)

\* the blocks a step adds to the done-set stored for the date of the view
AddedToday ==
  LET key == getDateKey(BaseDay + now.day)
      before == IF key \in DOMAIN doneStore THEN doneStore[key] ELSE {}
      after == IF key \in DOMAIN doneStore' THEN doneStore'[key] ELSE {}
  IN  after \ before

\* C25: whatever previous / next steps came before it, a click on the done
\* button never adds to the done-set of today a block that starts later
\* than the current minute of the view.
C25_NoFutureBlockDone ==
  [][DoneClick =>
       \A i \in AddedToday \cup (doneSet' \ doneSet) :
         i < Len(blocks) => toMinutes(blocks[i + 1].start) <= now.min]_vars

\* C25: at 08:49 the view was on the block 08:30-08:55, the previous button
\* led to the last block, 09:00-09:10, of the day before, and the done
\* button marked it: the done-set stored for today holds the block that
\* starts at 09:00.
C25_Witness ==
  /\ now = [day |-> 0, min |-> 529]
  /\ blocks = buildBlocks(SchedAlerts)
  /\ currentIndex = 0
  /\ previewIndex = 1 /\ previewDayOffset = -1
  /\ doneSet = {1}
  /\ getDateKey(BaseDay) \in DOMAIN doneStore
  /\ doneStore[getDateKey(BaseDay)] = {1}
  /\ toMinutes(blocks[2].start) > now.min


-----------------------------------------------------------------------------
(* The done marks over a schedule stored by another view, under Spec *)

\* C26: a done mark stays on the block it was set on: when the storage
\* notification of a schedule has been handled, on the same date, every index
\* of the done-set designates a BuiltBlock with the start and the end of the
\* block it designated before.
C26_DoneMarkStaysOnBlock ==
  [][StorageSchedule =>
       \A i \in doneSet' :
         /\ i < Len(blocks) /\ i < Len(blocks')
         /\ blocks'[i + 1].start = blocks[i + 1].start
         /\ blocks'[i + 1].end = blocks[i + 1].end]_vars

\* C26: at 08:50 the done-set holds index 1, which was marked when it was
\* the block 06:30-09:00 of the default schedule (of the stored schedule
\* only index 0 can be marked at 08:50); the schedule stored since has
\* 09:00-09:10 at index 1, whose alert 10 minutes before the start, due at
\* 08:50, has not been triggered, while that of the block 08:30-08:55 has.
C26_Witness ==
  /\ phase = "mounted"
  /\ wall = [day |-> 0, min |-> 530] /\ now = wall
  /\ blocks = buildBlocks(SchedAlerts)
  /\ doneSet = {1}
  /\ getDateKey(BaseDay) \in DOMAIN doneStore
  /\ doneStore[getDateKey(BaseDay)] = {1}
  /\ KeyEnd5 \in alertStore
  /\ KeyStart10 \notin alertStore


-----------------------------------------------------------------------------
(***************************************************************************)
(* SpecSchedules: the elder view over whatever localStorage holds under    *)
(* schedule_v1, at 08:55: nothing, the empty string, a text that is no     *)
(* JSON, a JSON value that is no array, or an array of up to MaxStored     *)
(* items: blocks that load, a block that overlaps them, and a record that  *)
(* is no block.                                                            *)
(* The variable scheduleStore holds the text; another view replaces it at  *)
(* any time.                                                               *)
(***************************************************************************)
\* the stored blocks A and B, which load, C, which overlaps both, and the
\* record E whose start is no string
ScheduleItems ==
  {item \in BlockItems :
     item.rec.label \in {StrLabel("A"), StrLabel("B"), StrLabel("C"), StrLabel("E")}}

ScheduleTexts ==
  {StoredText(kind, FALSE, <<>>) : kind \in {"missing", "empty", "text"}}
  \cup {StoredText("json", FALSE, <<>>)}
  \cup {StoredText("json", TRUE, items) : items \in SeqsUpTo(ScheduleItems, MaxStored)}

\* what loadSchedule returns for a stored text: try and catch are part of it
LoadedOfText(raw) == loadScheduleText(raw).value

InitSchedules ==
  \E raw \in ScheduleTexts : Constructed(535, raw, <<>>) /\ NoCall

MountOfText == MountStepWith(LoadedOfText(scheduleStore)) /\ UNCHANGED restVars

ScheduleNotified ==
  StorageScheduleWith(ScheduleTexts, [raw \in ScheduleTexts |-> LoadedOfText(raw)])

NextSchedules ==
  \/ MountOfText
  \/ MountEffects
  \/ ScheduleNotified

SpecSchedules == InitSchedules /\ [][NextSchedules]_vars

\* a stored text holds no schedule to use: it is missing, empty, no JSON, no
\* array, an array without a block record, or its blocks do not pass
\* validateSchedule
NoScheduleIn(raw) ==
  \/ raw.kind # "json"
  \/ ~raw.isArray
  \/ LET records == SelectSeq(raw.items, IsBlockRecord)
     IN  \/ records = <<>>
         \/ ~validateSchedule([i \in 1..Len(records) |-> LoadBlock(records[i].rec)]).ok

\* C27: in every state of the elder view the schedule in use passes
\* validateSchedule, and it is the default schedule or one loadSchedule
\* returns for a stored text; a load at mount or a storage notification that
\* finds no schedule to use (missing, malformed, empty or invalid) leaves the
\* schedule in use, and the blocks built from it, as they were.
C27_ScheduleInUseValid ==
  /\ [](/\ validateSchedule(timeBlocks).ok
        /\ \/ timeBlocks = TIME_BLOCKS
           \/ \E raw \in ScheduleTexts : LoadedOfText(raw) = Some(timeBlocks)
        /\ phase # "constructed" => blocks = buildBlocks(timeBlocks))
  /\ [][(MountOfText /\ NoScheduleIn(scheduleStore)) =>
          timeBlocks' = timeBlocks]_vars
  /\ [][(ScheduleNotified /\ NoScheduleIn(scheduleStore')) =>
          (timeBlocks' = timeBlocks /\ blocks' = blocks)]_vars

\* C27: the view uses the stored blocks 09:00-09:10 and 09:10-09:20 it has
\* loaded, while the text now stored is no JSON
C27_Witness ==
  /\ phase = "mounted"
  /\ scheduleStore = StoredText("text", FALSE, <<>>)
  /\ Len(timeBlocks) = 2
  /\ timeBlocks[1].start = SlotTime(0) /\ timeBlocks[2].end = SlotTime(2)
  /\ blocks = buildBlocks(timeBlocks)


-----------------------------------------------------------------------------
(***************************************************************************)
(* SpecBuildSchedule: buildBlocks called on the schedules of one or two    *)
(* blocks that validateSchedule accepts and that are in the order of their *)
(* starts. The blocks lie between 09:00 and 09:04 and have a label, two    *)
(* tasks or three tasks.                                                   *)
(***************************************************************************)
SchedBlocks ==
  {TB(TimeOfMinute(s), TimeOfMinute(e), c[1], c[2], Undef, "undef") :
     s \in 540..542, e \in 541..544,
     c \in {<<StrLabel("A"), Undef>>, <<NoLabel, Some(<<"A", "B">>)>>,
            <<NoLabel, Some(<<"A", "B", "C">>)>>}}

OrderedByStart(list) ==
  \A i \in 1..Len(list) - 1 : toMinutes(list[i].start) <= toMinutes(list[i + 1].start)

InitBuildSchedule ==
  /\ Unmounted
  /\ \E list \in SeqsUpTo(SchedBlocks, 2) :
       /\ validateSchedule(list).ok
       /\ OrderedByStart(list)
       /\ fnArgs = [op |-> "buildBlocks", blocks |-> list]
  /\ fnResult = Pending

SpecBuildSchedule == InitBuildSchedule /\ [][NextBuild]_vars

\* the minutes m with start <= m < end for a block of the list, by the
\* numbers startMin and endMin of built blocks or the times of TimeBlocks
MinutesOfBuilt(list) ==
  {m \in 0..DAY_MINUTES : \E i \in 1..Len(list) : list[i].startMin <= m /\ m < list[i].endMin}

MinutesOfSchedule(list) ==
  {m \in 0..DAY_MINUTES :
     \E i \in 1..Len(list) : toMinutes(list[i].start) <= m /\ m < toMinutes(list[i].end)}

\* C28: of a schedule that validateSchedule accepts, in the order of its
\* starts, the BuiltBlocks are in ascending order, no two overlap, each has
\* startMin < endMin, together they cover the minutes of the schedule and no
\* others, and no two have the same start and end (the part of the alert
\* key that names the block).
C28_BuiltPartition ==
  fnResult.done =>
    LET built == fnResult.value
    IN  /\ \A i \in 1..Len(built) : built[i].startMin < built[i].endMin
        /\ \A i, j \in 1..Len(built) :
             i < j => /\ built[i].startMin <= built[j].startMin
                      /\ built[i].endMin <= built[j].startMin
        /\ MinutesOfBuilt(built) = MinutesOfSchedule(fnArgs.blocks)
        /\ \A i, j \in 1..Len(built) :
             i # j => <<built[i].start, built[i].end>> # <<built[j].start, built[j].end>>

\* C28: the block 09:00-09:01 with the tasks A, B and C was built into
\* 09:00-09:01 for A and twice 09:01-09:01 for B and for C: two blocks
\* without a minute, with one start and end
C28_Witness ==
  /\ fnResult.done
  /\ Len(fnArgs.blocks) = 1
  /\ validateSchedule(fnArgs.blocks).ok
  /\ Len(fnResult.value) = 3
  /\ fnResult.value[2].startMin = fnResult.value[2].endMin
  /\ fnResult.value[2].label = "B" /\ fnResult.value[3].label = "C"
  /\ fnResult.value[2].start = fnResult.value[3].start
  /\ fnResult.value[2].end = fnResult.value[3].end


-----------------------------------------------------------------------------
(* The labels of the blocks built from accepted schedules, under            *)
(* SpecBuildAny                                                             *)

\* C29: every BuiltBlock that buildBlocks makes of a schedule accepted by
\* validateSchedule has a label that is not empty.
C29_BuiltLabelNonEmpty ==
  (fnResult.done /\ validateSchedule(fnArgs.blocks).ok) =>
    \A i \in 1..Len(fnResult.value) : fnResult.value[i].label # ""

\* C29: the block 09:00-09:03 with the label A and an empty array of tasks
\* is accepted by validateSchedule for its label and built from its tasks:
\* into one block with an empty label
C29_Witness ==
  /\ fnResult.done
  /\ validateSchedule(fnArgs.blocks).ok
  /\ Len(fnArgs.blocks) = 1
  /\ fnArgs.blocks[1].label = StrLabel("A")
  /\ fnArgs.blocks[1].tasks = Some(<<>>)
  /\ fnArgs.blocks[1].end = T(9, 3)
  /\ Len(fnResult.value) = 1
  /\ fnResult.value[1].label = ""


-----------------------------------------------------------------------------
(***************************************************************************)
(* SpecBurst: the elder view with time kept in steps, as in SpecTimers,    *)
(* over a stored schedule of k blocks, k in 1..MaxDue, whose alerts are    *)
(* all due at 08:50: the block 09:0j-09:0(j+1) has its one alert 10 + j    *)
(* minutes before its start. The view is constructed at 08:49 and runs     *)
(* through 08:50 into 08:51; no block is marked done.                      *)
(***************************************************************************)
MaxDue == 5

BurstMinutes == {529, 530, 531}

BurstBlock(j) ==
  TB(T(9, j), T(9, j + 1), StrLabel("A"), Undef, Some(<<10 + j>>), "start")

SchedBurst(k) == [j \in 1..k |-> BurstBlock(j - 1)]

InitBurst ==
  \E k \in 1..MaxDue : Constructed(529, Some(SchedBurst(k)), <<>>) /\ NoCall

BurstTimePasses == TimePassesIn(BurstMinutes, 0)

NextBurst ==
  \/ TimedMount
  \/ TimedMountEffects
  \/ BurstTimePasses
  \/ TimedClockInterval
  \/ TimedAlertInterval

SpecBurst == InitBurst /\ [][NextBurst]_vars

\* the alert keys of the blocks in use that are not marked done and that are
\* due at the minute of the wall clock
DueOfOpenBlocks ==
  {key \in UNION {KeysOfBlock(blocks[i], WallClock.dateKey) :
                    i \in {n \in 1..Len(blocks) : (n - 1) \notin doneSet}} :
     TargetMinuteOf(key) = wall.min}

\* C30: the rule of one alert per tick loses no alert: when the wall clock
\* leaves a minute the view has run through with its 15-second tick, every
\* alert of a block not marked done that was due in that minute has been
\* triggered, however many there were, and no tick triggered two.
C30_AllDueAlertsFire ==
  /\ [][(phase = "mounted" /\ wall' # wall) => DueOfOpenBlocks \subseteq DOMAIN fired]_vars
  /\ [][Cardinality(TriggeredNow) <= 1]_vars

\* C30: the view has run through 08:50, in which the alerts of five blocks
\* were due, and has come to 08:51: four of them were triggered, by the four
\* ticks of the minute, and the alert of the block 09:04-09:05 was not
C30_Witness ==
  /\ phase = "mounted"
  /\ wall = [day |-> 0, min |-> 531]
  /\ doneSet = {}
  /\ blocks = buildBlocks(SchedBurst(5))
  /\ \A j \in 1..4 : AlertKey(getDateKey(BaseDay), blocks[j], "start", 9 + j) \in DOMAIN fired
  /\ AlertKey(getDateKey(BaseDay), blocks[5], "start", 14) \notin DOMAIN fired
  /\ AlertKey(getDateKey(BaseDay), blocks[5], "start", 14) \notin alertStore

=============================================================================
